---- MODULE Spec2Model ----
(***************************************************************************)
(* Model of the G-code pipeline of muralbotV3: parse_gcode                 *)
(* (src/gcode_parser.py) and extract_segments, the three optimizers,       *)
(* generate_gcode and modify_gcode (src/gcode_modifier.py).                *)
(*                                                                         *)
(* Text is a sequence of one-character strings, a file a sequence of       *)
(* lines.  X and Y are integers in units of 0.001 mm, Z is an integer in   *)
(* units of 0.0000001 mm, so that the tolerances 1e-3 (travel) and 1e-6    *)
(* (pen down) of the source are the integers 1 and 10.                     *)
(***************************************************************************)
EXTENDS Integers, Sequences, FiniteSets, TLC

VARIABLES
  pc,                 \* position in the function being run
  \* parse_gcode
  lines_read,         \* the lines of the file consumed so far, in order
  operations, current_color, last_set_color, current_pos,
  \* modify_gcode
  parsed_data, strategy, segments_by_color, optimized_segments, opt_ret,
  exc, result,
  \* optimize_shortest_path
  points_hashable,    \* whether the point objects of the segments hash
  remaining_segments, optimized_path, current_point, processed_count,
  total_segments, nearest_color, current_segment_in_color,
  \* generate_gcode
  gcode_lines, gen_current_pos, gen_current_color, gen_i,
  \* GCodeVisualizerApp.modify_gcode_path
  returned            \* the texts modify_gcode has returned to it, call by call

parse_vars == <<lines_read, operations, current_color, last_set_color, current_pos>>
modify_vars == <<parsed_data, strategy, segments_by_color, optimized_segments, opt_ret, exc, result>>
osp_vars == <<points_hashable, remaining_segments, optimized_path, current_point,
              processed_count, total_segments, nearest_color, current_segment_in_color>>
gen_vars == <<gcode_lines, gen_current_pos, gen_current_color, gen_i>>
gui_vars == <<returned>>
vars == <<pc, parse_vars, modify_vars, osp_vars, gen_vars, gui_vars>>

----------------------------------------------------------------------------
(* Bounds of the model *)

\* longest ordered path handed to generate_gcode directly
MaxPath == 2
\* most segments in the dict handed to optimize_shortest_path directly
MaxSegs == 2
\* longest operation list handed to modify_gcode
MaxOps == 2
\* longest file handed to parse_gcode
MaxLines == 4
\* most presses of the "Modify G-code" button on the same loaded operations
MaxCalls == 2

\* X and Y values of the inputs (0.001 mm): 0, 0.5 mm, 1 mm
XS == {0, 1000}
YS == {0, 500}

----------------------------------------------------------------------------
(* Constants of src/gcode_modifier.py, in the model's units *)

DEFAULT_Z_UP == 50000000
DEFAULT_Z_DOWN == 0
DEFAULT_FEED_RATE_MOVE == 3000
DEFAULT_FEED_RATE_DRAW == 1000
LINE_SPACING == 500
\* 1e-6 mm, the tolerance of "Z <= DEFAULT_Z_DOWN + 1e-6"
Z_TOLERANCE == 10
\* 1e-3 mm, the tolerance of "dist_to_start > 1e-3"
TRAVEL_TOLERANCE == 1
\* digits after the point written by the format ":.3f"
FORMAT_DECIMALS == 3

\* Python's None
None == <<"None">>

Point(x, y) == [x |-> x, y |-> y]
Segment(s, e, c) == [start |-> s, end |-> e, color |-> c]

----------------------------------------------------------------------------
(* Text *)

Abs(n) == IF n < 0 THEN -n ELSE n

RECURSIVE Pow10(_)
Pow10(n) == IF n = 0 THEN 1 ELSE 10 * Pow10(n - 1)

\* Z units per 0.001 mm
ZPerMilli == 10 * 1000

Digits == <<"0","1","2","3","4","5","6","7","8","9">>

\* the decimal digits of a natural number
RECURSIVE NatChars(_)
NatChars(n) == IF n < 10 THEN <<Digits[n + 1]>>
               ELSE NatChars(n \div 10) \o <<Digits[(n % 10) + 1]>>

\* the last k decimal digits of n, zero padded
RECURSIVE PadChars(_, _)
PadChars(n, k) == IF k = 0 THEN <<>>
                  ELSE PadChars(n \div 10, k - 1) \o <<Digits[(n % 10) + 1]>>

\* f"{v:.3f}" of a value held in units of 0.001
Fixed3(milli) ==
  (IF milli < 0 THEN <<"-">> ELSE <<>>)
    \o NatChars(Abs(milli) \div Pow10(FORMAT_DECIMALS))
    \o <<".">>
    \o PadChars(Abs(milli) % Pow10(FORMAT_DECIMALS), FORMAT_DECIMALS)

\* f"{v:.3f}" of an XY value and of a Z value (rounded to 0.001)
FormatXY(v) == Fixed3(v)
FormatZ(z) ==
  IF z >= 0 THEN Fixed3((z + ZPerMilli \div 2) \div ZPerMilli)
  ELSE Fixed3(-((-z + ZPerMilli \div 2) \div ZPerMilli))

\* f"{v:.0f}" of a whole number
Format0(n) == NatChars(n)

\* text contains the text sub
Contains(text, sub) ==
  \E i \in 0..(Len(text) - Len(sub)) :
     \A j \in 1..Len(sub) : text[i + j] = sub[j]

StartsWith(text, pre) ==
  Len(text) >= Len(pre) /\ \A j \in 1..Len(pre) : text[j] = pre[j]

EndsWith(text, suf) ==
  Len(text) >= Len(suf)
  /\ \A j \in 1..Len(suf) : text[Len(text) - Len(suf) + j] = suf[j]

----------------------------------------------------------------------------
(* generate_gcode: the lines it writes *)

PreambleLines == <<
  <<";"," ","G","-","c","o","d","e"," ","g","e","n","e","r","a","t","e","d"," ","b","y"," ","G","C","o","d","e","V","i","s","u","a","l","i","z","e","r","A","p","p"," ","M","o","d","i","f","i","e","r">>,
  <<"G","9","0"," ",";"," ","U","s","e"," ","a","b","s","o","l","u","t","e"," ","c","o","o","r","d","i","n","a","t","e","s">>,
  <<"G","2","1"," ",";"," ","S","e","t"," ","u","n","i","t","s"," ","t","o"," ","m","i","l","l","i","m","e","t","e","r","s">>,
  <<"G","0"," ","Z">> \o FormatZ(DEFAULT_Z_UP) \o <<" ","F">> \o Format0(DEFAULT_FEED_RATE_MOVE)
     \o <<" ",";"," ","E","n","s","u","r","e"," ","t","o","o","l"," ","i","s"," ","u","p"," ","i","n","i","t","i","a","l","l","y">>,
  <<"G","0"," ","X","0"," ","Y","0"," ",";"," ","M","o","v","e"," ","t","o"," ","o","r","i","g","i","n">> >>

LiftPrefix == <<"G","0"," ","Z">> \o FormatZ(DEFAULT_Z_UP)
LiftForColorLine == LiftPrefix \o <<" ",";"," ","R","a","i","s","e"," ","t","o","o","l"," ","f","o","r"," ","c","o","l","o","r"," ","c","h","a","n","g","e">>
LiftForTravelLine == LiftPrefix \o <<" ",";"," ","R","a","i","s","e"," ","t","o","o","l"," ","f","o","r"," ","t","r","a","v","e","l">>
FinalLiftLine == LiftPrefix \o <<" ",";"," ","F","i","n","a","l"," ","l","i","f","t">>
ColorSuffix == <<" ",";"," ","C","h","a","n","g","e"," ","c","o","l","o","r">>
ColorLine(color) == color \o ColorSuffix
TravelSuffix == <<" ",";"," ","T","r","a","v","e","l"," ","t","o"," ","s","e","g","m","e","n","t"," ","s","t","a","r","t">>
TravelLine(p) ==
  <<"G","0"," ","X">> \o FormatXY(p.x) \o <<" ","Y">> \o FormatXY(p.y) \o TravelSuffix
LowerLine ==
  <<"G","1"," ","Z">> \o FormatZ(DEFAULT_Z_DOWN) \o <<" ","F">> \o Format0(DEFAULT_FEED_RATE_DRAW)
     \o <<" ",";"," ","L","o","w","e","r"," ","t","o","o","l">>
DrawSuffix == <<" ","F">> \o Format0(DEFAULT_FEED_RATE_DRAW) \o <<" ",";"," ","D","r","a","w"," ","s","e","g","m","e","n","t">>
DrawLine(p) ==
  <<"G","1"," ","X">> \o FormatXY(p.x) \o <<" ","Y">> \o FormatXY(p.y) \o DrawSuffix
ReturnLine == <<"G","0"," ","X","0"," ","Y","0"," ",";"," ","R","e","t","u","r","n"," ","t","o"," ","o","r","i","g","i","n">>
EndLine == <<"M","2"," ",";"," ","E","n","d"," ","o","f"," ","p","r","o","g","r","a","m">>

\* the tool is down: current_pos['z'] <= DEFAULT_Z_DOWN + 1e-6
ToolDown(z) == z <= DEFAULT_Z_DOWN + Z_TOLERANCE

\* a plausible slip: ">=" and no tolerance
ToolUp_NoTolerance(z) == z >= DEFAULT_Z_DOWN

\* the tool is up: current_pos['z'] > DEFAULT_Z_DOWN + 1e-6
ToolUp(z) == z > DEFAULT_Z_DOWN + Z_TOLERANCE

DistSq(p, q) == (p.x - q.x) * (p.x - q.x) + (p.y - q.y) * (p.y - q.y)

\* dist_to_start > 1e-3, with dist_to_start the square root of DistSq
NeedsTravel(pos, start) == DistSq(pos, start) > TRAVEL_TOLERANCE * TRAVEL_TOLERANCE

----------------------------------------------------------------------------
(* generate_gcode, one action per numbered step of its loop body *)

\* lines 273-281: the preamble and the tracked state
GenStart ==
  /\ pc = "gen_start"
  /\ gcode_lines' = PreambleLines
  /\ gen_current_pos' = [x |-> 0, y |-> 0, z |-> DEFAULT_Z_UP]
  /\ gen_current_color' = None
  /\ gen_i' = 1
  /\ pc' = IF Len(optimized_segments) = 0 THEN "gen_trailer" ELSE "gen_color"
  /\ UNCHANGED <<gui_vars, parse_vars, modify_vars, osp_vars>>

\* lines 288-295: 1. Color Change (if needed)
GenColorChange ==
  /\ pc = "gen_color"
  /\ LET segment_color == optimized_segments[gen_i].color
         lift == ToolDown(gen_current_pos.z)
     IN IF segment_color # gen_current_color
        THEN /\ gcode_lines' = gcode_lines
                    \o (IF lift THEN <<LiftForColorLine>> ELSE <<>>)
                    \o <<ColorLine(segment_color)>>
             /\ gen_current_pos' = IF lift
                                   THEN [gen_current_pos EXCEPT !.z = DEFAULT_Z_UP]
                                   ELSE gen_current_pos
             /\ gen_current_color' = segment_color
        ELSE UNCHANGED <<gcode_lines, gen_current_pos, gen_current_color>>
  /\ pc' = "gen_travel"
  /\ UNCHANGED <<gui_vars, gen_i, parse_vars, modify_vars, osp_vars>>

\* a plausible slip: the travel is written without the lift of lines 303-305
GenTravel_NoLift ==
  /\ pc = "gen_travel"
  /\ LET start_point == optimized_segments[gen_i].start
     IN IF NeedsTravel(gen_current_pos, start_point)
        THEN /\ gcode_lines' = Append(gcode_lines, TravelLine(start_point))
             /\ gen_current_pos' =
                  [x |-> start_point.x, y |-> start_point.y, z |-> gen_current_pos.z]
        ELSE UNCHANGED <<gcode_lines, gen_current_pos>>
  /\ pc' = "gen_lower"
  /\ UNCHANGED <<gui_vars, gen_current_color, gen_i, parse_vars, modify_vars, osp_vars>>

\* lines 297-309: 2. Move to Start of Segment (if not already there)
GenTravel ==
  /\ pc = "gen_travel"
  /\ LET start_point == optimized_segments[gen_i].start
         lift == ToolDown(gen_current_pos.z)
     IN IF NeedsTravel(gen_current_pos, start_point)
        THEN /\ gcode_lines' = gcode_lines
                    \o (IF lift THEN <<LiftForTravelLine>> ELSE <<>>)
                    \o <<TravelLine(start_point)>>
             /\ gen_current_pos' =
                  [x |-> start_point.x, y |-> start_point.y,
                   z |-> IF lift THEN DEFAULT_Z_UP ELSE gen_current_pos.z]
        ELSE UNCHANGED <<gcode_lines, gen_current_pos>>
  /\ pc' = "gen_lower"
  /\ UNCHANGED <<gui_vars, gen_current_color, gen_i, parse_vars, modify_vars, osp_vars>>

\* lines 311-314: 3. Lower Tool (if needed)
GenLower ==
  /\ pc = "gen_lower"
  /\ IF ToolUp(gen_current_pos.z)
     THEN /\ gcode_lines' = Append(gcode_lines, LowerLine)
          /\ gen_current_pos' = [gen_current_pos EXCEPT !.z = DEFAULT_Z_DOWN]
     ELSE UNCHANGED <<gcode_lines, gen_current_pos>>
  /\ pc' = "gen_draw"
  /\ UNCHANGED <<gui_vars, gen_current_color, gen_i, parse_vars, modify_vars, osp_vars>>

\* a plausible slip: the draw goes to the segment's start point
GenDraw_ToStart ==
  /\ pc = "gen_draw"
  /\ LET end_point == optimized_segments[gen_i].start
     IN /\ gcode_lines' = Append(gcode_lines, DrawLine(end_point))
        /\ gen_current_pos' = [gen_current_pos EXCEPT !.x = end_point.x,
                                                      !.y = end_point.y]
  /\ gen_i' = gen_i + 1
  /\ pc' = IF gen_i = Len(optimized_segments) THEN "gen_trailer" ELSE "gen_color"
  /\ UNCHANGED <<gui_vars, gen_current_color, parse_vars, modify_vars, osp_vars>>

\* lines 316-319: 4. Draw Segment (G1), and the loop's step to the next segment
GenDraw ==
  /\ pc = "gen_draw"
  /\ LET end_point == optimized_segments[gen_i].end
     IN /\ gcode_lines' = Append(gcode_lines, DrawLine(end_point))
        /\ gen_current_pos' = [gen_current_pos EXCEPT !.x = end_point.x,
                                                      !.y = end_point.y]
  /\ gen_i' = gen_i + 1
  /\ pc' = IF gen_i = Len(optimized_segments) THEN "gen_trailer" ELSE "gen_color"
  /\ UNCHANGED <<gui_vars, gen_current_color, parse_vars, modify_vars, osp_vars>>

\* lines 321-326: the trailer; the joined lines are the return value
GenTrailer ==
  /\ pc = "gen_trailer"
  /\ gcode_lines' = gcode_lines \o <<FinalLiftLine, ReturnLine, EndLine>>
  /\ pc' = "gen_return"
  /\ UNCHANGED <<gui_vars, gen_current_pos, gen_current_color, gen_i,
                 parse_vars, modify_vars, osp_vars>>

----------------------------------------------------------------------------
(* Inputs *)

DEFAULT_COLOR == <<"#","0","0","0","0","0","0">>
RED == <<"#","f","f","0","0","0","0">>
GREEN == <<"#","0","0","f","f","0","0">>

\* colors an operation or a segment can carry
Colors == {DEFAULT_COLOR, RED}

Points == {Point(x, y) : x \in XS, y \in YS}

\* segments of an ordered path, degenerate ones included
Segments == {Segment(s, e, c) : s \in Points, e \in Points, c \in Colors}

SeqsUpTo(S, n) == UNION {[1..k -> S] : k \in 0..n}

\* values of the variables a function under study does not use
ParseIdle ==
  /\ lines_read = <<>>
  /\ operations = <<>>
  /\ current_color = DEFAULT_COLOR
  /\ last_set_color = None
  /\ current_pos = [x |-> 0, y |-> 0, z |-> 0]

ModifyIdle ==
  /\ parsed_data = <<>>
  /\ strategy = <<>>
  /\ segments_by_color = [order |-> <<>>, list |-> <<>>]
  /\ opt_ret = "unset"
  /\ exc = <<>>
  /\ result = <<>>

OspIdle ==
  /\ remaining_segments = [order |-> <<>>, set |-> <<>>]
  /\ optimized_path = <<>>
  /\ current_point = Point(0, 0)
  /\ processed_count = 0
  /\ total_segments = 0
  /\ nearest_color = None
  /\ current_segment_in_color = None

GenIdle ==
  /\ gcode_lines = <<>>
  /\ gen_current_pos = [x |-> 0, y |-> 0, z |-> DEFAULT_Z_UP]
  /\ gen_current_color = None
  /\ gen_i = 1

----------------------------------------------------------------------------
(* SpecEmit: generate_gcode called on any ordered path *)

InitEmit ==
  /\ pc = "gen_start"
  /\ returned = <<>>
  /\ optimized_segments \in SeqsUpTo(Segments, MaxPath)
  /\ points_hashable = FALSE
  /\ ParseIdle /\ ModifyIdle /\ OspIdle /\ GenIdle

NextEmit ==
  \/ GenStart
  \/ GenColorChange
  \/ GenTravel
  \/ GenLower
  \/ GenDraw
  \/ GenTrailer

SpecEmit == InitEmit /\ [][NextEmit]_vars

----------------------------------------------------------------------------
(* Reading the lines generate_gcode wrote *)

IsLiftLine(l) == l \in {LiftForColorLine, LiftForTravelLine, FinalLiftLine}
IsColorLine(l) == EndsWith(l, ColorSuffix)
IsTravelLine(l) == EndsWith(l, TravelSuffix)
IsLowerLine(l) == l = LowerLine
IsDrawLine(l) == EndsWith(l, DrawSuffix)

\* the places of the draw lines in gcode_lines, in order
DrawPlaces ==
  SelectSeq([k \in 1..Len(gcode_lines) |-> k], LAMBDA k : IsDrawLine(gcode_lines[k]))

\* segments i and i+1 of the path are chained: same color, start of the second
\* equal to the end of the first
Chained(i) ==
  /\ optimized_segments[i].color = optimized_segments[i + 1].color
  /\ optimized_segments[i + 1].start = optimized_segments[i].end

----------------------------------------------------------------------------
(* Claims about generate_gcode, under SpecEmit *)

\* C6 (as claimed): every line generate_gcode writes after the preamble is
\* needed by the tracked state at the moment it is written: a lift only while
\* the tracked tool height is down, a color directive only when the segment's
\* color differs from the active color, a travel only when the tracked position
\* is farther than the tolerance from the segment start, a down-transition only
\* while the tool is up; the trailer's final lift included.
C6_NoRedundantLine ==
  [][pc # "gen_start" =>
      \A k \in (Len(gcode_lines) + 1)..Len(gcode_lines') :
         LET l == gcode_lines'[k]
         IN /\ IsLiftLine(l) => ToolDown(gen_current_pos.z)
            /\ IsColorLine(l) => optimized_segments[gen_i].color # gen_current_color
            /\ IsTravelLine(l) =>
                 NeedsTravel(gen_current_pos, optimized_segments[gen_i].start)
            /\ IsLowerLine(l) => ~ToolDown(gen_current_pos.z)]_vars

\* C7: once two consecutive chained segments (same color, second starting
\* where the first ends) are both drawn, the second's draw line is the line
\* right after the first's, and each is the draw to its segment's end.
C7_ChainedDrawsAdjacent ==
  \A i \in 1..(Len(optimized_segments) - 1) :
     (pc \in {"gen_color", "gen_travel", "gen_lower", "gen_draw",
              "gen_trailer", "gen_return"}
      /\ i + 1 < gen_i /\ Chained(i))
     => /\ Len(DrawPlaces) >= i + 1
        /\ DrawPlaces[i + 1] = DrawPlaces[i] + 1
        /\ gcode_lines[DrawPlaces[i]] = DrawLine(optimized_segments[i].end)
        /\ gcode_lines[DrawPlaces[i + 1]] = DrawLine(optimized_segments[i + 1].end)

\* C7 witness: generate_gcode has returned for a path of two chained segments,
\* the first of which needed a travel and a down-transition.
C7_Witness ==
  /\ pc = "gen_return"
  /\ Len(optimized_segments) = 2
  /\ Chained(1)
  /\ optimized_segments[1].start # Point(0, 0)
  /\ optimized_segments[2].start # optimized_segments[2].end
  /\ Len(DrawPlaces) = 2

----------------------------------------------------------------------------
(* extract_segments *)

G0 == <<"G","0">>
G1 == <<"G","1">>

Move(command, x, y, z, color) ==
  [type |-> "move", command |-> command, x |-> x, y |-> y, z |-> z, color |-> color]

\* an insertion-ordered dict of lists: its keys in order, and the list of each
EmptyDict == [order |-> <<>>, list |-> <<>>]

\* d[key].append(v) on a defaultdict(list)
DictAppend(d, key, v) ==
  IF key \in DOMAIN d.list
  THEN [d EXCEPT !.list[key] = Append(@, v)]
  ELSE [order |-> Append(d.order, key),
        list |-> [k \in DOMAIN d.list \cup {key} |->
                    IF k = key THEN <<v>> ELSE d.list[k]]]

\* a plausible slip: no tolerance in the test of line 40
PenDown_NoTolerance(z) == z <= DEFAULT_Z_DOWN

\* line 40: new_pen_down, target_pos['z'] <= DEFAULT_Z_DOWN + 1e-6
PenDown(z) == z <= DEFAULT_Z_DOWN + Z_TOLERANCE

\* a plausible slip: the command is not looked at
YieldsSegment_AnyCommand(command, new_pen_down, target_pos, pos) ==
  /\ new_pen_down
  /\ (target_pos.x # pos.x \/ target_pos.y # pos.y)

\* lines 43 and 45: a G1 with the pen down whose position changed
YieldsSegment(command, new_pen_down, target_pos, pos) ==
  /\ command = G1
  /\ new_pen_down
  /\ (target_pos.x # pos.x \/ target_pos.y # pos.y)

\* a plausible slip: line 54 inside the block of line 43, so that the running
\* position follows the pen-down G1 moves only
RECURSIVE ExtractFrom_PosOnDraw(_, _, _, _)
ExtractFrom_PosOnDraw(data, i, pos, d) ==
  IF i > Len(data) THEN d
  ELSE LET item == data[i]
           target_pos == [x |-> item.x, y |-> item.y, z |-> item.z]
           new_pen_down == PenDown(target_pos.z)
           segment == Segment(Point(pos.x, pos.y),
                              Point(target_pos.x, target_pos.y), item.color)
       IN IF item.type # "move"
          THEN ExtractFrom_PosOnDraw(data, i + 1, pos, d)
          ELSE IF YieldsSegment(item.command, new_pen_down, target_pos, pos)
               THEN ExtractFrom_PosOnDraw(data, i + 1, target_pos,
                                          DictAppend(d, item.color, segment))
               ELSE ExtractFrom_PosOnDraw(data, i + 1, pos, d)

\* the body of the loop of lines 31-55, from item i on
RECURSIVE ExtractFrom(_, _, _, _)
ExtractFrom(data, i, pos, d) ==
  IF i > Len(data) THEN d
  ELSE LET item == data[i]
           target_pos == [x |-> item.x, y |-> item.y, z |-> item.z]
           new_pen_down == PenDown(target_pos.z)
           segment == Segment(Point(pos.x, pos.y),
                              Point(target_pos.x, target_pos.y), item.color)
       IN IF item.type # "move"
          THEN ExtractFrom(data, i + 1, pos, d)
          ELSE IF YieldsSegment(item.command, new_pen_down, target_pos, pos)
               THEN ExtractFrom(data, i + 1, target_pos,
                                DictAppend(d, item.color, segment))
               ELSE ExtractFrom(data, i + 1, target_pos, d)

extract_segments(data) ==
  ExtractFrom(data, 1, [x |-> 0, y |-> 0, z |-> 0], EmptyDict)

\* all the segments of a dict, color by color in key order
RECURSIVE DictValuesFrom(_, _)
DictValuesFrom(d, k) ==
  IF k > Len(d.order) THEN <<>>
  ELSE d.list[d.order[k]] \o DictValuesFrom(d, k + 1)

DictValues(d) == DictValuesFrom(d, 1)

\* any(segments_by_color.values())
AnySegments(d) == \E c \in DOMAIN d.list : Len(d.list[c]) > 0

----------------------------------------------------------------------------
(* optimize_vertical, optimize_horizontal *)

Range(s) == {s[i] : i \in DOMAIN s}
Min(S) == CHOOSE m \in S : \A n \in S : m <= n
Max(S) == CHOOSE m \in S : \A n \in S : m >= n

\* get_color_bounds of a non-empty list
get_color_bounds(segments) ==
  LET xs == UNION {{s.start.x, s.end.x} : s \in Range(segments)}
      ys == UNION {{s.start.y, s.end.y} : s \in Range(segments)}
  IN [min_x |-> Min(xs), min_y |-> Min(ys), max_x |-> Max(xs), max_y |-> Max(ys)]

\* The scan coordinate is a Python float, an IEEE 754 double, and x += LINE_SPACING
\* rounds.  A double near the decimal m/1000 (0 <= m < 16000 thousandths of a mm) is
\* written as m and an error a: the double is m/1000 + a * 2^-62/1000.
ErrorBits == 62

RECURSIVE Pow2(_)
Pow2(n) == IF n = 0 THEN 1 ELSE 2 * Pow2(n - 1)

\* the binade of m/1000: the j with 2^(j-10) <= m/1000 < 2^(j-9), 0 for m = 0
RECURSIVE BinadeFrom(_, _)
BinadeFrom(m, j) ==
  IF 1000 * Pow2(j + 1) <= m * Pow2(10) THEN BinadeFrom(m, j + 1) ELSE j

Binade(m) == BinadeFrom(m, 0)

\* the distance between neighbouring doubles of that binade, 2^(j-62), in error units
Grid(m) == 1000 * Pow2(Binade(m))

\* (m * 2^n) mod D, six doublings at a time
RECURSIVE MulPow2Mod(_, _, _)
MulPow2Mod(m, n, D) ==
  IF n = 0 THEN m % D
  ELSE IF n >= 6 THEN (Pow2(6) * MulPow2Mod(m, n - 6, D)) % D
       ELSE (2 * MulPow2Mod(m, n - 1, D)) % D

\* round to nearest, ties to even: the error of the double nearest to
\* m/1000 + a * 2^-62/1000
RoundErr(m, a) ==
  LET D == Grid(m)
      t2 == (MulPow2Mod(m, ErrorBits, 2 * D) + a) % (2 * D)
      t == t2 % D
  IN IF 2 * t < D \/ (2 * t = D /\ t2 < D) THEN a - t ELSE a + D - t

\* float("m/1000"): the error of a parsed coordinate
FloatErr(m) == RoundErr(m, 0)

\* a generated segment; drift is what its scan coordinate has above the double
\* nearest to its decimal, in error units
ScanLine(s, e, c, drift) == [start |-> s, end |-> e, color |-> c, drift |-> drift]

\* a plausible slip: "<" for "<=" in the loop test
WalkGoesOn_Strict(m, a, max) == m < max

\* lines 199 and 239: x <= bounds['max_x'], on doubles
WalkGoesOn(m, a, max) == m < max \/ (m = max /\ a <= FloatErr(max))

\* lines 198-207 and 238-247: the values the scan coordinate takes, from the
\* double m/1000 + a on
RECURSIVE WalkFrom(_, _, _)
WalkFrom(m, a, max) ==
  IF WalkGoesOn(m, a, max)
  THEN <<[milli |-> m, drift |-> a - FloatErr(m)]>>
       \o WalkFrom(m + LINE_SPACING, RoundErr(m + LINE_SPACING, a), max)
  ELSE <<>>

Walk(min, max) == WalkFrom(min, FloatErr(min), max)

\* the scan lines of one color: x = min_x, then x += LINE_SPACING while x <= max_x
VerticalLines(color, b) ==
  LET xs == Walk(b.min_x, b.max_x)
  IN [k \in 1..Len(xs) |->
        ScanLine(Point(xs[k].milli, b.min_y), Point(xs[k].milli, b.max_y),
                 color, xs[k].drift)]

HorizontalLines(color, b) ==
  LET ys == Walk(b.min_y, b.max_y)
  IN [k \in 1..Len(ys) |->
        ScanLine(Point(b.min_x, ys[k].milli), Point(b.max_x, ys[k].milli),
                 color, ys[k].drift)]

\* the loop over the colors of the dict, from key k on
RECURSIVE ScanFrom(_, _, _)
ScanFrom(d, k, vertical) ==
  IF k > Len(d.order) THEN <<>>
  ELSE LET color == d.order[k]
           original_segments == d.list[color]
           lines == IF Len(original_segments) = 0 THEN <<>>
                    ELSE IF vertical
                         THEN VerticalLines(color, get_color_bounds(original_segments))
                         ELSE HorizontalLines(color, get_color_bounds(original_segments))
       IN lines \o ScanFrom(d, k + 1, vertical)

\* the sort keys of lines 210 and 253; the scan coordinate is compared as a
\* double: by its decimal, then by its drift
VerticalKey(seg) == <<seg.start.x, seg.drift, seg.start.y>>
HorizontalKey(seg) == <<seg.start.y, seg.drift, seg.start.x>>
SortKey(seg, vertical) == IF vertical THEN VerticalKey(seg) ELSE HorizontalKey(seg)

\* a plausible slip: only the first coordinate is compared
KeyLess_FirstOnly(a, b) == a[1] < b[1]

\* tuple comparison of two keys
KeyLess(a, b) ==
  \/ a[1] < b[1]
  \/ (a[1] = b[1] /\ a[2] < b[2])
  \/ (a[1] = b[1] /\ a[2] = b[2] /\ a[3] < b[3])

\* list.sort(key=...) is stable: e goes behind every element whose key is not greater
RECURSIVE InsertSorted(_, _, _)
InsertSorted(sorted, e, vertical) ==
  IF sorted = <<>> THEN <<e>>
  ELSE IF KeyLess(SortKey(e, vertical), SortKey(Head(sorted), vertical))
       THEN <<e>> \o sorted
       ELSE <<Head(sorted)>> \o InsertSorted(Tail(sorted), e, vertical)

RECURSIVE SortFrom(_, _, _, _)
SortFrom(s, i, acc, vertical) ==
  IF i > Len(s) THEN acc
  ELSE SortFrom(s, i + 1, InsertSorted(acc, s[i], vertical), vertical)

optimize_vertical(d) == SortFrom(ScanFrom(d, 1, TRUE), 1, <<>>, TRUE)
optimize_horizontal(d) == SortFrom(ScanFrom(d, 1, FALSE), 1, <<>>, FALSE)

----------------------------------------------------------------------------
(* optimize_shortest_path *)

\* a plausible slip: the distance is taken to the segment's end point
NearestCandidates_ByEnd(current, segments_set) ==
  {s \in segments_set :
     \A t \in segments_set : DistSq(s.end, current) <= DistSq(t.end, current)}

\* the candidates find_nearest_segment can return: the first segment at the
\* least distance in the iteration order of the set, which is the order of the
\* hashes, so any segment at the least distance
NearestCandidates(current, segments_set) ==
  {s \in segments_set :
     \A t \in segments_set : DistSq(s.start, current) <= DistSq(t.start, current)}

\* the square of the distance find_nearest_segment returns
NearestDistSq(current, segments_set) ==
  Min({DistSq(s.start, current) : s \in segments_set})

\* lines 104-117: the first color, in key order, at the least distance
NearestColor(current, rem) ==
  LET dist(k) == NearestDistSq(current, rem.set[rem.order[k]])
      best == CHOOSE k \in 1..Len(rem.order) :
                 /\ \A j \in 1..Len(rem.order) : dist(k) <= dist(j)
                 /\ \A j \in 1..(k - 1) : dist(j) > dist(k)
  IN rem.order[best]

\* del d[key]
DictDelete(rem, key) ==
  [order |-> SelectSeq(rem.order, LAMBDA c : c # key),
   set |-> [c \in DOMAIN rem.set \ {key} |-> rem.set[c]]]

RECURSIVE SumSizes(_, _)
SumSizes(rem, k) ==
  IF k > Len(rem.order) THEN 0
  ELSE Cardinality(rem.set[rem.order[k]]) + SumSizes(rem, k + 1)

UnhashableMessage == <<"u","n","h","a","s","h","a","b","l","e"," ","t","y","p","e",":"," ","'","d","i","c","t","'">>

\* lines 87-99: the sets of remaining segments.  set() hashes every segment
\* tuple, and with it the point objects it holds: a plain dict does not hash
\* and the call raises TypeError.
OspBuild ==
  /\ pc = "osp_build"
  /\ LET nonempty == SelectSeq(segments_by_color.order,
                               LAMBDA c : Len(segments_by_color.list[c]) > 0)
         rem == [order |-> nonempty,
                 set |-> [c \in Range(nonempty) |-> Range(segments_by_color.list[c])]]
     IN IF nonempty # <<>> /\ ~points_hashable
        THEN /\ exc' = UnhashableMessage
             /\ pc' = "raised"
             /\ UNCHANGED <<remaining_segments, total_segments>>
        ELSE /\ remaining_segments' = rem
             /\ total_segments' = SumSizes(rem, 1)
             /\ pc' = "osp_outer"
             /\ exc' = exc
  /\ optimized_path' = <<>>
  /\ current_point' = Point(0, 0)
  /\ processed_count' = 0
  /\ UNCHANGED <<gui_vars, points_hashable, nearest_color, current_segment_in_color,
                 parsed_data, strategy, segments_by_color, optimized_segments,
                 opt_ret, result, parse_vars, gen_vars>>

\* lines 101-130: one pass of the outer loop up to the inner loop
OspOuter ==
  /\ pc = "osp_outer"
  /\ IF remaining_segments.order = <<>>
     THEN /\ pc' = "osp_end"
          /\ UNCHANGED <<nearest_color, current_segment_in_color, current_point>>
     ELSE LET color == NearestColor(current_point, remaining_segments)
          IN \E seg \in NearestCandidates(current_point, remaining_segments.set[color]) :
                /\ nearest_color' = color
                /\ current_segment_in_color' = seg
                /\ current_point' = seg.start
                /\ pc' = "osp_inner"
  /\ UNCHANGED <<gui_vars, points_hashable, remaining_segments, optimized_path,
                 processed_count, total_segments, modify_vars, parse_vars, gen_vars>>

\* the inner loop as it would be without line 148's remove: the segment just
\* added stays in its color's set
OspInner_KeepsSegment ==
  /\ pc = "osp_inner"
  /\ LET seg == current_segment_in_color
         left == remaining_segments.set[nearest_color]
     IN /\ optimized_path' = Append(optimized_path, seg)
        /\ processed_count' = processed_count + 1
        /\ current_point' = seg.end
        /\ IF left = {}
           THEN /\ current_segment_in_color' = None
                /\ remaining_segments' = DictDelete(remaining_segments, nearest_color)
                /\ pc' = "osp_outer"
           ELSE /\ \E next \in NearestCandidates(seg.end, left) :
                      current_segment_in_color' = next
                /\ remaining_segments' =
                     [remaining_segments EXCEPT !.set[nearest_color] = left]
                /\ pc' = "osp_inner"
  /\ UNCHANGED <<gui_vars, points_hashable, total_segments, nearest_color,
                 modify_vars, parse_vars, gen_vars>>

\* lines 132-155: one pass of the inner loop; when the color's set is empty the
\* loop ends and the color's key is deleted
OspInner ==
  /\ pc = "osp_inner"
  /\ LET seg == current_segment_in_color
         left == remaining_segments.set[nearest_color] \ {seg}
     IN /\ optimized_path' = Append(optimized_path, seg)
        /\ processed_count' = processed_count + 1
        /\ current_point' = seg.end
        /\ IF left = {}
           THEN /\ current_segment_in_color' = None
                /\ remaining_segments' = DictDelete(remaining_segments, nearest_color)
                /\ pc' = "osp_outer"
           ELSE /\ \E next \in NearestCandidates(seg.end, left) :
                      current_segment_in_color' = next
                /\ remaining_segments' =
                     [remaining_segments EXCEPT !.set[nearest_color] = left]
                /\ pc' = "osp_inner"
  /\ UNCHANGED <<gui_vars, points_hashable, total_segments, nearest_color,
                 modify_vars, parse_vars, gen_vars>>

\* lines 157-160: the count is printed, a mismatch is printed as a warning, and
\* the function ends without a return statement: the caller gets None (in
\* modify_gcode, line 356 would then leave None in optimized_segments)
OspEnd ==
  /\ pc = "osp_end"
  /\ opt_ret' = "None"
  /\ optimized_segments' = <<>>
  /\ pc' = "osp_return"
  /\ UNCHANGED <<gui_vars, parsed_data, strategy, segments_by_color, exc, result,
                 osp_vars, parse_vars, gen_vars>>

----------------------------------------------------------------------------
(* modify_gcode *)

ShortestPath == <<"S","h","o","r","t","e","s","t"," ","P","a","t","h">>
Vertical == <<"V","e","r","t","i","c","a","l">>
Horizontal == <<"H","o","r","i","z","o","n","t","a","l">>

NoDataText == <<";"," ","E","r","r","o","r",":"," ","N","o"," ","p","a","r","s","e","d"," ","G","-","c","o","d","e"," ","d","a","t","a"," ","p","r","o","v","i","d","e","d",".">>
NoSegmentsText == <<";"," ","I","n","f","o",":"," ","N","o"," ","d","r","a","w","i","n","g"," ","s","e","g","m","e","n","t","s"," ","(","G","1"," ","w","i","t","h"," ","Z","<","=","0",")"," ","f","o","u","n","d"," ","i","n"," ","t","h","e"," ","G","-","c","o","d","e",".">>
UnknownStrategyText(name) ==
  <<";"," ","E","r","r","o","r",":"," ","U","n","k","n","o","w","n"," ","o","p","t","i","m","i","z","a","t","i","o","n"," ","s","t","r","a","t","e","g","y"," ","'">> \o name \o <<"'",".">>
OptimizationFailedText == <<";"," ","E","r","r","o","r",":"," ","O","p","t","i","m","i","z","a","t","i","o","n"," ","f","a","i","l","e","d"," ","o","r"," ","p","r","o","d","u","c","e","d"," ","n","o"," ","s","e","g","m","e","n","t","s",".">>
ExceptionText(e) == <<";"," ","E","r","r","o","r"," ","d","u","r","i","n","g"," ","m","o","d","i","f","i","c","a","t","i","o","n",":"," ">> \o e

\* lines 342-344
ModifyEntry ==
  /\ pc = "entry"
  /\ IF Len(parsed_data) = 0
     THEN /\ result' = <<NoDataText>>
          /\ pc' = "done"
     ELSE /\ pc' = "extract"
          /\ UNCHANGED result
  /\ UNCHANGED <<gui_vars, parsed_data, strategy, segments_by_color, optimized_segments,
                 opt_ret, exc, parse_vars, osp_vars, gen_vars>>

\* a plausible slip: the check of line 349 left out
ModifyExtract_NoCheck ==
  /\ pc = "extract"
  /\ segments_by_color' = extract_segments(parsed_data)
  /\ pc' = "dispatch"
  /\ UNCHANGED <<gui_vars, parsed_data, strategy, optimized_segments, opt_ret, exc, result,
                 parse_vars, osp_vars, gen_vars>>

\* a plausible slip: the loop of line 31 written as a loop that pops the
\* operations off the caller's list
ModifyExtract_Pops ==
  /\ pc = "extract"
  /\ segments_by_color' = extract_segments(parsed_data)
  /\ parsed_data' = <<>>
  /\ IF ~AnySegments(segments_by_color')
     THEN /\ result' = <<NoSegmentsText>>
          /\ pc' = "done"
     ELSE /\ pc' = "dispatch"
          /\ UNCHANGED result
  /\ UNCHANGED <<gui_vars, strategy, optimized_segments, opt_ret, exc,
                 parse_vars, osp_vars, gen_vars>>

\* lines 347-351
ModifyExtract ==
  /\ pc = "extract"
  /\ segments_by_color' = extract_segments(parsed_data)
  /\ IF ~AnySegments(segments_by_color')
     THEN /\ result' = <<NoSegmentsText>>
          /\ pc' = "done"
     ELSE /\ pc' = "dispatch"
          /\ UNCHANGED result
  /\ UNCHANGED <<gui_vars, parsed_data, strategy, optimized_segments, opt_ret, exc,
                 parse_vars, osp_vars, gen_vars>>

\* lines 355-356
DispatchShortestPath ==
  /\ pc = "dispatch"
  /\ strategy = ShortestPath
  /\ pc' = "osp_build"
  /\ UNCHANGED <<gui_vars, modify_vars, parse_vars, osp_vars, gen_vars>>

\* lines 357-358
DispatchVertical ==
  /\ pc = "dispatch"
  /\ strategy # ShortestPath
  /\ strategy = Vertical
  /\ optimized_segments' = optimize_vertical(segments_by_color)
  /\ opt_ret' = "list"
  /\ pc' = "check"
  /\ UNCHANGED <<gui_vars, parsed_data, strategy, segments_by_color, exc, result,
                 parse_vars, osp_vars, gen_vars>>

\* lines 359-360
DispatchHorizontal ==
  /\ pc = "dispatch"
  /\ strategy \notin {ShortestPath, Vertical}
  /\ strategy = Horizontal
  /\ optimized_segments' = optimize_horizontal(segments_by_color)
  /\ opt_ret' = "list"
  /\ pc' = "check"
  /\ UNCHANGED <<gui_vars, parsed_data, strategy, segments_by_color, exc, result,
                 parse_vars, osp_vars, gen_vars>>

\* lines 361-362
DispatchUnknown ==
  /\ pc = "dispatch"
  /\ strategy \notin {ShortestPath, Vertical, Horizontal}
  /\ result' = <<UnknownStrategyText(strategy)>>
  /\ pc' = "done"
  /\ UNCHANGED <<gui_vars, parsed_data, strategy, segments_by_color, optimized_segments,
                 opt_ret, exc, parse_vars, osp_vars, gen_vars>>

\* lines 364-366
ModifyCheckOptimized ==
  /\ pc = "check"
  /\ IF opt_ret = "None" \/ Len(optimized_segments) = 0
     THEN /\ result' = <<OptimizationFailedText>>
          /\ pc' = "done"
     ELSE /\ pc' = "gen_start"
          /\ UNCHANGED result
  /\ UNCHANGED <<gui_vars, parsed_data, strategy, segments_by_color, optimized_segments,
                 opt_ret, exc, parse_vars, osp_vars, gen_vars>>

\* lines 369-371
ModifyReturn ==
  /\ pc = "gen_return"
  /\ result' = gcode_lines
  /\ pc' = "done"
  /\ UNCHANGED <<gui_vars, parsed_data, strategy, segments_by_color, optimized_segments,
                 opt_ret, exc, parse_vars, osp_vars, gen_vars>>

\* lines 373-378
ModifyExcept ==
  /\ pc = "raised"
  /\ result' = <<ExceptionText(exc)>>
  /\ pc' = "done"
  /\ UNCHANGED <<gui_vars, parsed_data, strategy, segments_by_color, optimized_segments,
                 opt_ret, exc, parse_vars, osp_vars, gen_vars>>

----------------------------------------------------------------------------
(* Spec: modify_gcode called on any operation list with any strategy name *)

ZS == {DEFAULT_Z_DOWN, DEFAULT_Z_UP}

\* operations parse_gcode can produce
Moves == {Move(c, x, y, z, col) :
            c \in {G0, G1}, x \in XS, y \in YS, z \in ZS, col \in Colors}

\* the three strategy names and two names that are none of them
StrategyNames == {ShortestPath, Vertical, Horizontal, <<"v","e","r","t","i","c","a","l">>, <<"S","p","i","r","a","l">>}

Init ==
  /\ pc = "entry"
  /\ returned = <<>>
  /\ parsed_data \in SeqsUpTo(Moves, MaxOps)
  /\ strategy \in StrategyNames
  /\ segments_by_color = EmptyDict
  /\ optimized_segments = <<>>
  /\ opt_ret = "unset"
  /\ exc = <<>>
  /\ result = <<>>
  \* extract_segments builds start and end as plain dicts (lines 47-48)
  /\ points_hashable = FALSE
  /\ ParseIdle /\ OspIdle /\ GenIdle

Next ==
  \/ ModifyEntry
  \/ ModifyExtract
  \/ DispatchShortestPath
  \/ DispatchVertical
  \/ DispatchHorizontal
  \/ DispatchUnknown
  \/ OspBuild
  \/ ModifyCheckOptimized
  \/ ModifyExcept
  \/ NextEmit
  \/ ModifyReturn

Spec == Init /\ [][Next]_vars

----------------------------------------------------------------------------
(* SpecOsp: optimize_shortest_path called on any dict of segment lists *)

\* the dict extract_segments builds from a list of segments in drawing order
RECURSIVE DictOfFrom(_, _, _)
DictOfFrom(segs, i, d) ==
  IF i > Len(segs) THEN d
  ELSE DictOfFrom(segs, i + 1, DictAppend(d, segs[i].color, segs[i]))

DictOf(segs) == DictOfFrom(segs, 1, EmptyDict)

InitOsp ==
  /\ pc = "osp_build"
  /\ returned = <<>>
  /\ \E segs \in SeqsUpTo(Segments, MaxSegs) : segments_by_color = DictOf(segs)
  /\ points_hashable \in BOOLEAN
  /\ parsed_data = <<>>
  /\ strategy = ShortestPath
  /\ optimized_segments = <<>>
  /\ opt_ret = "unset"
  /\ exc = <<>>
  /\ result = <<>>
  /\ ParseIdle /\ OspIdle /\ GenIdle

NextOsp ==
  \/ OspBuild
  \/ OspOuter
  \/ OspInner
  \/ OspEnd

SpecOsp == InitOsp /\ [][NextOsp]_vars

----------------------------------------------------------------------------
(* Claims about optimize_shortest_path and modify_gcode *)

Count(s, e) == Cardinality({i \in DOMAIN s : s[i] = e})

\* a and b hold the same elements, each as many times
IsPermutation(a, b) ==
  /\ Len(a) = Len(b)
  /\ \A e \in Range(a) \cup Range(b) : Count(a, e) = Count(b, e)

KnownStrategies == {ShortestPath, Vertical, Horizontal}

ErrorMarker == <<"E","r","r","o","r">>

\* the text is what generate_gcode writes for a path of n segments: the
\* preamble, a color directive, a down-transition, n draw lines, the trailer
IsToolpath(text, n) ==
  /\ Len(text) >= Len(PreambleLines) + 3
  /\ SubSeq(text, 1, Len(PreambleLines)) = PreambleLines
  /\ IsColorLine(text[Len(PreambleLines) + 1])
  /\ \E k \in DOMAIN text : IsLowerLine(text[k])
  /\ Cardinality({k \in DOMAIN text : IsDrawLine(text[k])}) = n
  /\ SubSeq(text, Len(text) - 2, Len(text)) = <<FinalLiftLine, ReturnLine, EndLine>>

\* the text is one line of diagnostic carrying the error marker
IsErrorDiagnostic(text) == Len(text) = 1 /\ Contains(text[1], ErrorMarker)

\* C1 (as claimed), under SpecOsp: when optimize_shortest_path ends, it has
\* returned a list that is a permutation of the segments of its input: as many
\* segments, each input segment as often as the input holds it.
C1_ReturnsPermutation ==
  pc \in {"osp_return", "raised"}
  => /\ opt_ret = "list"
     /\ IsPermutation(optimized_segments, DictValues(segments_by_color))

\* C2 (as claimed): modify_gcode with "Shortest Path" on operations that hold
\* a drawable segment returns a generated toolpath with one draw line per
\* extracted segment.
C2_ShortestPathEmitsToolpath ==
  (pc = "done" /\ strategy = ShortestPath
   /\ AnySegments(extract_segments(parsed_data)))
  => IsToolpath(result, Len(DictValues(extract_segments(parsed_data))))

\* C3 (as claimed): when an optimizer has returned a path whose length is not
\* the number of segments that entered it, modify_gcode returns an error
\* diagnostic and generate_gcode has written nothing.
C3_MismatchIsAnError ==
  (pc = "done" /\ opt_ret = "list"
   /\ Len(optimized_segments) # Len(DictValues(segments_by_color)))
  => (IsErrorDiagnostic(result) /\ gcode_lines = <<>>)

\* C4 (as claimed): with a strategy name that is none of the three,
\* modify_gcode returns one line of diagnostic that carries the marker "Error",
\* whatever the operations, and generate_gcode has written nothing.
C4_UnknownStrategyIsAnError ==
  (pc = "done" /\ strategy \notin KnownStrategies)
  => (IsErrorDiagnostic(result) /\ gcode_lines = <<>>)

\* the places modify_gcode can be at; each has a step that leaves it, but "done"
ModifyPlaces ==
  {"entry", "extract", "dispatch", "osp_build", "raised", "check", "gen_start",
   "gen_color", "gen_travel", "gen_lower", "gen_draw", "gen_trailer",
   "gen_return", "done"}

\* C5: modify_gcode never leaves its steps but by returning text (an exception
\* raised inside it is caught, and the path being generated is never read past
\* its end); the four failure conditions return four different texts, an
\* exception a fifth; and whenever the text returned is one of these,
\* generate_gcode has written no line, otherwise it is the whole toolpath.
C5_DiagnosticsAbort ==
  /\ pc \in ModifyPlaces
  /\ pc \in {"gen_color", "gen_travel", "gen_lower", "gen_draw"}
       => gen_i \in 1..Len(optimized_segments)
  /\ Cardinality({NoDataText, NoSegmentsText, UnknownStrategyText(strategy),
                  OptimizationFailedText, ExceptionText(exc)}) = 5
  /\ pc = "done" =>
       LET d == extract_segments(parsed_data)
           diagnostic == result # gcode_lines
       IN /\ Len(result) >= 1
          /\ Len(parsed_data) = 0 => result = <<NoDataText>>
          /\ (Len(parsed_data) > 0 /\ ~AnySegments(d)) => result = <<NoSegmentsText>>
          /\ (Len(parsed_data) > 0 /\ AnySegments(d) /\ strategy \notin KnownStrategies)
               => result = <<UnknownStrategyText(strategy)>>
          /\ (opt_ret # "unset" /\ Len(optimized_segments) = 0)
               => result = <<OptimizationFailedText>>
          /\ exc # <<>> => result = <<ExceptionText(exc)>>
          /\ diagnostic => gcode_lines = <<>>
          /\ ~diagnostic => IsToolpath(result, Len(optimized_segments))

\* C5 witness: an exception was raised inside modify_gcode and it has returned
\* the exception's diagnostic, with nothing generated.
C5_Witness ==
  /\ pc = "done"
  /\ exc # <<>>
  /\ result = <<ExceptionText(exc)>>
  /\ gcode_lines = <<>>

----------------------------------------------------------------------------
(* parse_gcode: reading one line *)

Whitespace == {" ", "\t"}
DigitChars == {"0","1","2","3","4","5","6","7","8","9"}
HexChars == DigitChars \cup {"a","b","c","d","e","f","A","B","C","D","E","F"}
AxisChars == {"X","Y","Z","x","y","z"}

\* str.lower() and str.upper(), on the letters that can reach them
LowerChar(c) ==
  CASE c = "A" -> "a" [] c = "B" -> "b" [] c = "C" -> "c"
    [] c = "D" -> "d" [] c = "E" -> "e" [] c = "F" -> "f"
    [] c = "G" -> "g" [] c = "X" -> "x" [] c = "Y" -> "y" [] c = "Z" -> "z"
    [] OTHER -> c

UpperChar(c) ==
  CASE c = "g" -> "G" [] c = "x" -> "X" [] c = "y" -> "Y" [] c = "z" -> "Z"
    [] OTHER -> c

Lower(text) == [i \in 1..Len(text) |-> LowerChar(text[i])]
Upper(text) == [i \in 1..Len(text) |-> UpperChar(text[i])]

\* text without its first n characters
Drop(text, n) == SubSeq(text, n + 1, Len(text))

\* how many characters of text, from place i on, are in the set
RECURSIVE RunLength(_, _, _)
RunLength(text, i, set) ==
  IF i <= Len(text) /\ text[i] \in set THEN 1 + RunLength(text, i + 1, set) ELSE 0

RECURSIVE StripRight(_)
StripRight(text) ==
  IF text # <<>> /\ text[Len(text)] \in Whitespace
  THEN StripRight(SubSeq(text, 1, Len(text) - 1))
  ELSE text

\* line.strip()
Strip(text) == StripRight(Drop(text, RunLength(text, 1, Whitespace)))

\* color_regex = ^#([0-9a-fA-F]{3}|[0-9a-fA-F]{6})$
MatchesColor(line) ==
  /\ Len(line) \in {4, 7}
  /\ line[1] = "#"
  /\ \A i \in 2..Len(line) : line[i] \in HexChars

\* a plausible slip: .lower() left out
NormalizeHex_NoLower(raw_hex_code) ==
  IF Len(raw_hex_code) = 4
  THEN <<"#", raw_hex_code[2], raw_hex_code[2], raw_hex_code[3],
         raw_hex_code[3], raw_hex_code[4], raw_hex_code[4]>>
  ELSE raw_hex_code

\* lines 41-45: 3 digits are doubled, the token is lowercased
NormalizeHex(raw_hex_code) ==
  IF Len(raw_hex_code) = 4
  THEN Lower(<<"#", raw_hex_code[2], raw_hex_code[2], raw_hex_code[3],
               raw_hex_code[3], raw_hex_code[4], raw_hex_code[4]>>)
  ELSE Lower(raw_hex_code)

\* re.match(r'^(G[01])\s*(.*)', line, re.IGNORECASE)
MatchesCommand(line) ==
  /\ Len(line) >= 2
  /\ line[1] \in {"G", "g"}
  /\ line[2] \in {"0", "1"}

\* group(1).upper() and group(2) of that match
CommandOf(line) == Upper(SubSeq(line, 1, 2))
ArgsOf(line) == Drop(line, 2 + RunLength(line, 3, Whitespace))

\* the length of the match of -?\d+(?:\.\d+)? at place i of text, 0 for no match
NumberLength(text, i) ==
  LET sign == IF i <= Len(text) /\ text[i] = "-" THEN 1 ELSE 0
      whole == RunLength(text, i + sign, DigitChars)
      dot == i + sign + whole
      frac == IF dot <= Len(text) /\ text[dot] = "."
              THEN RunLength(text, dot + 1, DigitChars) ELSE 0
  IN IF whole = 0 THEN 0
     ELSE sign + whole + (IF frac > 0 THEN 1 + frac ELSE 0)

\* coord_regex.findall(args_str): the (axis, value) pairs, left to right, from
\* place i on
RECURSIVE FindCoords(_, _)
FindCoords(text, i) ==
  IF i > Len(text) THEN <<>>
  ELSE IF text[i] \in AxisChars /\ NumberLength(text, i + 1) > 0
       THEN <<[axis |-> text[i],
               value |-> SubSeq(text, i + 1, i + NumberLength(text, i + 1))]>>
            \o FindCoords(text, i + 1 + NumberLength(text, i + 1))
       ELSE FindCoords(text, i + 1)

\* the number a run of digits spells
RECURSIVE DigitsValue(_)
DigitsValue(ds) ==
  IF ds = <<>> THEN 0
  ELSE 10 * DigitsValue(SubSeq(ds, 1, Len(ds) - 1))
       + (CHOOSE d \in 0..9 : Digits[d + 1] = ds[Len(ds)])

\* float(value) in units of 10^-places: value matched -?\d+(?:\.\d+)?, so
\* float never raises; digits beyond the unit are cut
FloatOf(value, places) ==
  LET sign == IF value[1] = "-" THEN 1 ELSE 0
      whole == RunLength(value, 1 + sign, DigitChars)
      fracs == Drop(value, sign + whole + 1)
      kept == SubSeq(fracs, 1, IF Len(fracs) < places THEN Len(fracs) ELSE places)
      magnitude == DigitsValue(SubSeq(value, 1 + sign, sign + whole)) * Pow10(places)
                   + DigitsValue(kept) * Pow10(places - Len(kept))
  IN IF sign = 1 THEN -magnitude ELSE magnitude

\* decimal places of the units of X, Y (0.001 mm) and Z (0.0000001 mm)
PlacesOf(axis_lower) == IF axis_lower = "z" THEN FORMAT_DECIMALS + 4 ELSE FORMAT_DECIMALS

\* lines 69-84: coords[axis] after the loop over the pairs found: the last
\* value found for the axis, or None (found = FALSE)
RECURSIVE CoordOf(_, _, _)
CoordOf(found_coords, axis_lower, k) ==
  IF k = 0 THEN [found |-> FALSE, value |-> 0]
  ELSE IF LowerChar(found_coords[k].axis) = axis_lower
       THEN [found |-> TRUE,
             value |-> FloatOf(found_coords[k].value, PlacesOf(axis_lower))]
       ELSE CoordOf(found_coords, axis_lower, k - 1)

\* a plausible slip: a G1 without Z keeps the tracked Z, as a G0 does
TargetPos_ZAlwaysTracked(command, found_coords, pos) ==
  LET n == Len(found_coords)
      cx == CoordOf(found_coords, "x", n)
      cy == CoordOf(found_coords, "y", n)
      cz == CoordOf(found_coords, "z", n)
  IN [x |-> IF cx.found THEN cx.value ELSE pos.x,
      y |-> IF cy.found THEN cy.value ELSE pos.y,
      z |-> IF cz.found THEN cz.value ELSE pos.z]

\* lines 89-107: the target position of a move
TargetPos(command, found_coords, pos) ==
  LET n == Len(found_coords)
      cx == CoordOf(found_coords, "x", n)
      cy == CoordOf(found_coords, "y", n)
      cz == CoordOf(found_coords, "z", n)
  IN [x |-> IF cx.found THEN cx.value ELSE pos.x,
      y |-> IF cy.found THEN cy.value ELSE pos.y,
      z |-> IF cz.found THEN cz.value
            ELSE IF command = G1 THEN 0 ELSE pos.z]

\* a plausible slip: line 49 left out, the color stays when a block is closed
DirectiveEffect_ColorKept(normalized_hex, color, last) ==
  IF normalized_hex = last
  THEN [current_color |-> color, last_set_color |-> None]
  ELSE [current_color |-> normalized_hex, last_set_color |-> normalized_hex]

\* a plausible slip: the marker is kept when a block is closed
DirectiveEffect_MarkerKept(normalized_hex, color, last) ==
  IF normalized_hex = last
  THEN [current_color |-> DEFAULT_COLOR, last_set_color |-> last]
  ELSE [current_color |-> normalized_hex, last_set_color |-> normalized_hex]

\* a plausible slip: every directive opens a block
DirectiveEffect_NoToggle(normalized_hex, color, last) ==
  [current_color |-> normalized_hex, last_set_color |-> normalized_hex]

\* lines 47-58: what a valid directive makes of the active color and the marker
DirectiveEffect(normalized_hex, color, last) ==
  IF normalized_hex = last
  THEN [current_color |-> DEFAULT_COLOR, last_set_color |-> None]
  ELSE [current_color |-> normalized_hex, last_set_color |-> normalized_hex]

\* the kind of a line, in the order parse_gcode tests it (lines 31-65)
LineKind(raw) ==
  LET line == Strip(raw)
  IN IF line = <<>> \/ line[1] = ";" THEN "skip"
     ELSE IF line[1] = "#"
          THEN IF MatchesColor(line) THEN "color" ELSE "invalid color"
          ELSE IF MatchesCommand(line) THEN "move" ELSE "other"

----------------------------------------------------------------------------
(* parse_gcode, one action per kind of line *)

\* the lines a file is made of
LinePool ==
  { <<";"," ","E","x","a","m","p","l","e"," ","G","-","c","o","d","e">>,
    <<"#","f","f","0","0","0","0">>,
    <<"#","F","0","0">>,
    <<"#","0","0","f","f","0","0">>,
    <<"#","i","n","v","a","l","i","d","c","o","l","o","r">>,
    <<"#","0","0","0">>,
    <<"G","1"," ","X","1"," ","Y","0",".","5">>,
    <<"G","0"," ","X","0"," ","Y","0"," ","Z","5">>,
    <<"G","1"," ","X","1","0"," ","Y","1","0"," ","Z","b","a","d">>,
    <<"G","0"," ","X","0">>,
    <<"G","1","7">>,
    <<"G","9","9">> }

Reading(raw) ==
  /\ pc = "parse"
  /\ Len(lines_read) < MaxLines
  /\ lines_read' = Append(lines_read, raw)

\* lines 31-34: blank lines and ';' comments
ParseSkip ==
  \E raw \in LinePool :
    /\ Reading(raw)
    /\ LineKind(raw) = "skip"
    /\ UNCHANGED <<gui_vars, pc, operations, current_color, last_set_color, current_pos,
                   modify_vars, osp_vars, gen_vars>>

\* the parser its docstring describes (lines 14-15), with the appends of lines
\* 52 and 58 not commented out: a directive also appends an operation
ParseColor_AppendsOperation ==
  \E raw \in LinePool :
    /\ Reading(raw)
    /\ LineKind(raw) = "color"
    /\ LET effect == DirectiveEffect(NormalizeHex(Strip(raw)), current_color,
                                     last_set_color)
       IN /\ current_color' = effect.current_color
          /\ last_set_color' = effect.last_set_color
    /\ operations' = Append(operations,
                            [type |-> "color", value |-> NormalizeHex(Strip(raw))])
    /\ UNCHANGED <<gui_vars, pc, current_pos, modify_vars, osp_vars, gen_vars>>

\* lines 37-58, 61: a valid color directive
ParseColor ==
  \E raw \in LinePool :
    /\ Reading(raw)
    /\ LineKind(raw) = "color"
    /\ LET effect == DirectiveEffect(NormalizeHex(Strip(raw)), current_color,
                                     last_set_color)
       IN /\ current_color' = effect.current_color
          /\ last_set_color' = effect.last_set_color
    /\ UNCHANGED <<gui_vars, pc, operations, current_pos, modify_vars, osp_vars, gen_vars>>

\* a plausible slip: a '#' line that is no color closes the open block
ParseInvalidColor_ClosesBlock ==
  \E raw \in LinePool :
    /\ Reading(raw)
    /\ LineKind(raw) = "invalid color"
    /\ current_color' = DEFAULT_COLOR
    /\ last_set_color' = None
    /\ UNCHANGED <<gui_vars, pc, operations, current_pos, modify_vars, osp_vars, gen_vars>>

\* lines 59-61: a '#' line that is no color: a warning is printed
ParseInvalidColor ==
  \E raw \in LinePool :
    /\ Reading(raw)
    /\ LineKind(raw) = "invalid color"
    /\ UNCHANGED <<gui_vars, pc, operations, current_color, last_set_color, current_pos,
                   modify_vars, osp_vars, gen_vars>>

\* lines 64-120: a G0 or G1 line.  Every value coord_regex finds is a decimal,
\* so float() never raises and valid_command stays True.
ParseMove ==
  \E raw \in LinePool :
    /\ Reading(raw)
    /\ LineKind(raw) = "move"
    /\ LET line == Strip(raw)
           command == CommandOf(line)
           found_coords == FindCoords(ArgsOf(line), 1)
           target_pos == TargetPos(command, found_coords, current_pos)
       IN /\ operations' = Append(operations,
                 Move(command, target_pos.x, target_pos.y, target_pos.z,
                      current_color))
          /\ current_pos' = target_pos
    /\ UNCHANGED <<gui_vars, pc, current_color, last_set_color, modify_vars, osp_vars, gen_vars>>

\* lines 122-125: any other line
ParseOther ==
  \E raw \in LinePool :
    /\ Reading(raw)
    /\ LineKind(raw) = "other"
    /\ UNCHANGED <<gui_vars, pc, operations, current_color, last_set_color, current_pos,
                   modify_vars, osp_vars, gen_vars>>

\* line 134: the end of the file
ParseReturn ==
  /\ pc = "parse"
  /\ pc' = "parsed"
  /\ UNCHANGED <<gui_vars, parse_vars, modify_vars, osp_vars, gen_vars>>

----------------------------------------------------------------------------
(* SpecParse: parse_gcode reading any file of lines of the pool *)

InitParse ==
  /\ pc = "parse"
  /\ returned = <<>>
  /\ ParseIdle /\ ModifyIdle /\ OspIdle /\ GenIdle
  /\ optimized_segments = <<>>
  /\ points_hashable = FALSE

NextParse ==
  \/ ParseSkip
  \/ ParseColor
  \/ ParseInvalidColor
  \/ ParseMove
  \/ ParseOther
  \/ ParseReturn

SpecParse == InitParse /\ [][NextParse]_vars

----------------------------------------------------------------------------
(* Claims about parse_gcode, under SpecParse *)

\* the line a step has just read
LineRead == lines_read'[Len(lines_read')]
ReadsLine == Len(lines_read') = Len(lines_read) + 1

\* the normalized tokens of the valid directives read so far, in order
TokensRead ==
  LET directives == SelectSeq(lines_read, LAMBDA raw : LineKind(raw) = "color")
  IN [k \in 1..Len(directives) |-> NormalizeHex(Strip(directives[k]))]

MoveLines == {raw \in LinePool : LineKind(raw) = "move"}

\* C8: a step that reads a valid directive whose normalized token is the marker
\* sets the active color to the default and clears the marker; a step that
\* reads any other valid directive sets both to the token.  And after the file
\* "#ff0000", move, "#ff0000", move the first operation carries #ff0000 and the
\* second the default color.
C8_DirectiveToggles ==
  /\ [][(ReadsLine /\ LineKind(LineRead) = "color") =>
          LET token == NormalizeHex(Strip(LineRead))
          IN IF token = last_set_color
             THEN current_color' = DEFAULT_COLOR /\ last_set_color' = None
             ELSE current_color' = token /\ last_set_color' = token]_vars
  /\ [](\A m1 \in MoveLines, m2 \in MoveLines :
          lines_read = <<RED, m1, RED, m2>>
          => /\ Len(operations) = 2
             /\ operations[1].color = RED
             /\ operations[2].color = DEFAULT_COLOR)

\* C8 witness: the file "#ff0000", move, "#ff0000", move has been read.
C8_Witness ==
  /\ \E m1 \in MoveLines, m2 \in MoveLines : lines_read = <<RED, m1, RED, m2>>
  /\ Len(operations) = 2
  /\ operations[1].color = RED
  /\ operations[2].color = DEFAULT_COLOR
  /\ last_set_color = None

\* C9: directives do not stack.  With the valid directives read so far, from
\* the start of the file: after A, B, B (A # B) the active color is the
\* default; after A, B, A it is A; after k directives for the same token it is
\* the token when k is odd and the default when k is even.
C9_DirectivesNeverStack ==
  LET t == TokensRead
  IN /\ (Len(t) = 3 /\ t[1] # t[2] /\ t[3] = t[2]) => current_color = DEFAULT_COLOR
     /\ (Len(t) = 3 /\ t[1] # t[2] /\ t[3] = t[1]) => current_color = t[1]
     /\ (Len(t) >= 1 /\ \A k \in 1..Len(t) : t[k] = t[1])
          => current_color = IF Len(t) % 2 = 1 THEN t[1] ELSE DEFAULT_COLOR

\* C9 witness: three directives A, B, B with A # B have been read, one of
\* them written with three digits, and the default color is active.
C9_Witness ==
  /\ Len(TokensRead) = 3
  /\ TokensRead[1] # TokensRead[2]
  /\ TokensRead[3] = TokensRead[2]
  /\ \E k \in 1..Len(lines_read) : Len(Strip(lines_read[k])) = 4
  /\ current_color = DEFAULT_COLOR

\* the arguments hold an axis letter that no signed decimal follows
HasMalformedAxis(args) ==
  \E i \in 1..Len(args) : args[i] \in AxisChars /\ NumberLength(args, i + 1) = 0

\* C10 (as claimed): a step that reads a G0/G1 line on which an axis letter is
\* followed by something that is no signed decimal appends no operation and
\* leaves the tracked position as it is.
C10_MalformedAxisDiscardsLine ==
  [][(ReadsLine /\ LineKind(LineRead) = "move"
      /\ HasMalformedAxis(ArgsOf(Strip(LineRead))))
     => (operations' = operations /\ current_pos' = current_pos)]_vars

----------------------------------------------------------------------------
(* parse_gcode as a function of the lines of the file *)

\* the state of lines 17-22
ParseStart ==
  [operations |-> <<>>, current_color |-> DEFAULT_COLOR, last_set_color |-> None,
   current_pos |-> [x |-> 0, y |-> 0, z |-> 0]]

\* lines 31-125: what one line makes of the state
ParseLine(st, raw) ==
  LET line == Strip(raw)
      kind == LineKind(raw)
  IN IF kind = "color"
     THEN LET effect == DirectiveEffect(NormalizeHex(line), st.current_color,
                                        st.last_set_color)
          IN [st EXCEPT !.current_color = effect.current_color,
                        !.last_set_color = effect.last_set_color]
     ELSE IF kind = "move"
          THEN LET command == CommandOf(line)
                   target_pos == TargetPos(command, FindCoords(ArgsOf(line), 1),
                                           st.current_pos)
               IN [st EXCEPT !.operations =
                                Append(@, Move(command, target_pos.x, target_pos.y,
                                               target_pos.z, st.current_color)),
                             !.current_pos = target_pos]
          ELSE st

\* the loop of line 30 over the lines, from line i on
RECURSIVE ParseFrom(_, _, _)
ParseFrom(lines, i, st) ==
  IF i > Len(lines) THEN st ELSE ParseFrom(lines, i + 1, ParseLine(st, lines[i]))

ParseFile(lines) == ParseFrom(lines, 1, ParseStart)

\* the file without its '#' lines that are no color
WithoutInvalid(lines) == SelectSeq(lines, LAMBDA raw : LineKind(raw) # "invalid color")

----------------------------------------------------------------------------
(* SpecExtract: extract_segments called by modify_gcode on any operations *)

\* target heights around the tolerance: 0, 1e-7, 1e-6, 1.1e-6 and 0.01 mm
ExtractZS == {DEFAULT_Z_DOWN, 1, Z_TOLERANCE, Z_TOLERANCE + 1, 100000}

ExtractMoves == {Move(c, x, y, z, col) :
                   c \in {G0, G1}, x \in XS, y \in YS, z \in ExtractZS, col \in Colors}

InitExtract ==
  /\ pc = "extract"
  /\ returned = <<>>
  /\ parsed_data \in SeqsUpTo(ExtractMoves, MaxOps) \ {<<>>}
  /\ strategy = Vertical
  /\ segments_by_color = EmptyDict
  /\ optimized_segments = <<>>
  /\ opt_ret = "unset"
  /\ exc = <<>>
  /\ result = <<>>
  /\ points_hashable = FALSE
  /\ ParseIdle /\ OspIdle /\ GenIdle

NextExtract == ModifyExtract

SpecExtract == InitExtract /\ [][NextExtract]_vars

----------------------------------------------------------------------------
(* Claims about extract_segments, under SpecExtract *)

\* extract_segments has returned
Extracted == pc \in {"dispatch", "done"}

\* the running position when operation i is looked at: the origin, then the
\* target of the operation before
RunningXY(i) ==
  IF i = 1 THEN Point(0, 0) ELSE Point(parsed_data[i - 1].x, parsed_data[i - 1].y)

TargetXY(i) == Point(parsed_data[i].x, parsed_data[i].y)

\* operation i is a G1 to a pen-down height and to another place
Drawing(i) ==
  /\ parsed_data[i].command = G1
  /\ parsed_data[i].z <= DEFAULT_Z_DOWN + Z_TOLERANCE
  /\ TargetXY(i) # RunningXY(i)

\* the bucket of a color, empty when the color is no key
Bucket(c) ==
  IF c \in DOMAIN segments_by_color.list THEN segments_by_color.list[c] ELSE <<>>

\* C12: the bucket of each color holds, in order, one segment from the running
\* position to the target for each operation of that color that is a G1, to a
\* pen-down height, to another place, and nothing else; so a G0 and a G1 to the
\* running position yield nothing, and there are no more segments than G1s.
C12_SegmentIffDrawing ==
  Extracted =>
    /\ \A c \in Colors :
         LET places == SelectSeq([i \in 1..Len(parsed_data) |-> i],
                                 LAMBDA i : Drawing(i) /\ parsed_data[i].color = c)
         IN Bucket(c) = [k \in 1..Len(places) |->
                           Segment(RunningXY(places[k]), TargetXY(places[k]), c)]
    /\ DOMAIN segments_by_color.list \subseteq Colors
    /\ Len(DictValues(segments_by_color))
         <= Cardinality({i \in 1..Len(parsed_data) : parsed_data[i].command = G1})

\* C12 witness: a pen-down G0 to another place, then a pen-down G1 to a third
\* place: one segment, from the target of the G0, in the bucket of the G1's color.
C12_Witness ==
  /\ Extracted
  /\ Len(parsed_data) = 2
  /\ parsed_data[1].command = G0 /\ parsed_data[1].z = DEFAULT_Z_DOWN
  /\ TargetXY(1) # Point(0, 0)
  /\ Drawing(2)
  /\ parsed_data[2].color = RED
  /\ DictValues(segments_by_color) = <<Segment(TargetXY(1), TargetXY(2), RED)>>

\* a G1 to another place than the running position
MovingG1(i) == parsed_data[i].command = G1 /\ TargetXY(i) # RunningXY(i)

\* C13: a move is pen-down exactly when its target Z is at most 0 + 1e-6: there
\* are as many segments as G1s to another place with such a Z; a G1 to another
\* place at Z = 1e-7 has its segment in its color's bucket; and when every G1
\* to another place is at Z = 0.01 there is no segment.
C13_PenDownWithinTolerance ==
  Extracted =>
    /\ Len(DictValues(segments_by_color))
         = Cardinality({i \in 1..Len(parsed_data) :
                          MovingG1(i) /\ parsed_data[i].z <= Z_TOLERANCE})
    /\ \A i \in 1..Len(parsed_data) :
         (MovingG1(i) /\ parsed_data[i].z = 1)
         => Segment(RunningXY(i), TargetXY(i), parsed_data[i].color)
              \in Range(Bucket(parsed_data[i].color))
    /\ (\A i \in 1..Len(parsed_data) : MovingG1(i) => parsed_data[i].z = 100000)
         => DictValues(segments_by_color) = <<>>

\* C13 witness: a G1 to another place at Z = 0.01, then a G1 to a third place
\* at Z = 1e-7: the second alone has yielded a segment.
C13_Witness ==
  /\ Extracted
  /\ Len(parsed_data) = 2
  /\ MovingG1(1) /\ parsed_data[1].z = 100000
  /\ MovingG1(2) /\ parsed_data[2].z = 1
  /\ DictValues(segments_by_color)
       = <<Segment(TargetXY(1), TargetXY(2), parsed_data[2].color)>>

----------------------------------------------------------------------------
(* SpecScan: optimize_vertical and optimize_horizontal called by modify_gcode
   on any dict of segment lists *)

\* sides of bounding boxes: 0..1 and 0.07..1 mm, and two that end or start at 0.57 mm
ScanSides == {<<0, 1000>>, <<70, 570>>, <<70, 1000>>, <<570, 1000>>}

\* one segment for each box and color, along the diagonal of the box
ScanSegments ==
  {Segment(Point(sx[1], sy[1]), Point(sx[2], sy[2]), c) :
     sx \in ScanSides, sy \in ScanSides, c \in Colors}

InitScan ==
  /\ pc = "dispatch"
  /\ returned = <<>>
  /\ strategy \in {Vertical, Horizontal}
  /\ \E segs \in SeqsUpTo(ScanSegments, MaxSegs) \ {<<>>} :
        segments_by_color = DictOf(segs)
  /\ parsed_data = <<>>
  /\ optimized_segments = <<>>
  /\ opt_ret = "unset"
  /\ exc = <<>>
  /\ result = <<>>
  /\ points_hashable = FALSE
  /\ ParseIdle /\ OspIdle /\ GenIdle

NextScan ==
  \/ DispatchVertical
  \/ DispatchHorizontal

SpecScan == InitScan /\ [][NextScan]_vars

----------------------------------------------------------------------------
(* Claims about the scan strategies, under SpecScan *)

\* the strategy has returned its path
Scanned == pc = "check"

\* the generated lines of one color, in the order of the path
LinesOf(c) == SelectSeq(optimized_segments, LAMBDA s : s.color = c)

BoxOf(c) == get_color_bounds(segments_by_color.list[c])

\* C14 (as claimed): the path of optimize_vertical holds, for each color with
\* box [min_x, max_x] x [min_y, max_y], exactly the lines from (x, min_y) to
\* (x, max_y) for x = min_x + i*spacing <= max_x, one each: k+1 lines when
\* max_x - min_x is k spacings or more and less than k+1, and when it is k
\* spacings the last line is at x = max_x.
C14_VerticalCoversBox ==
  (Scanned /\ strategy = Vertical) =>
    \A c \in DOMAIN segments_by_color.list :
       LET b == BoxOf(c)
           k == (b.max_x - b.min_x) \div LINE_SPACING
           lines == LinesOf(c)
       IN /\ Len(lines) = k + 1
          /\ \A i \in 1..Len(lines) :
               /\ lines[i].start = Point(b.min_x + (i - 1) * LINE_SPACING, b.min_y)
               /\ lines[i].end = Point(b.min_x + (i - 1) * LINE_SPACING, b.max_y)
          /\ (b.max_x - b.min_x) % LINE_SPACING = 0
               => lines[Len(lines)].start.x = b.max_x

\* the double x1 with drift d1 is less than the double x2 with drift d2
FloatLess(x1, d1, x2, d2) == x1 < x2 \/ (x1 = x2 /\ d1 < d2)

\* the key (scan, other) of line s is at most that of line t
KeyAtMost(s_scan, s_other, s, t_scan, t_other, t) ==
  \/ FloatLess(s_scan, s.drift, t_scan, t.drift)
  \/ (s_scan = t_scan /\ s.drift = t.drift /\ s_other <= t_other)

C16_HorizontalCoversBox ==
  (Scanned /\ strategy = Horizontal) =>
    \A c \in DOMAIN segments_by_color.list :
       LET b == BoxOf(c)
           k == (b.max_y - b.min_y) \div LINE_SPACING
           lines == LinesOf(c)
       IN /\ Len(lines) = k + 1
          /\ \A i \in 1..Len(lines) :
               /\ lines[i].start = Point(b.min_x, b.min_y + (i - 1) * LINE_SPACING)
               /\ lines[i].end = Point(b.max_x, b.min_y + (i - 1) * LINE_SPACING)
          /\ (b.max_y - b.min_y) % LINE_SPACING = 0
               => lines[Len(lines)].start.y = b.max_y

\* a block is open: a directive has set the color and none has closed it
BlockOpen == last_set_color # None

\* C17 (as claimed): the default color is a value no valid directive can
\* activate: a step that reads a directive that opens a block makes a color
\* other than the default the active one, and a step that reads a move while a
\* block is open appends an operation whose color, the key of its bucket in
\* extract_segments, is not the default color.
C17_DefaultColorIsDistinct ==
  /\ [][(ReadsLine /\ LineKind(LineRead) = "color" /\ last_set_color' # None)
        => current_color' # DEFAULT_COLOR]_vars
  /\ [][(ReadsLine /\ LineKind(LineRead) = "move" /\ BlockOpen)
        => operations'[Len(operations')].color # DEFAULT_COLOR]_vars

\* lowercase hex digits, and '#' with six of them
LowerHexChars == DigitChars \cup {"a","b","c","d","e","f"}
IsLowerSixDigit(color) ==
  /\ Len(color) = 7
  /\ color[1] = "#"
  /\ \A i \in 2..7 : color[i] \in LowerHexChars

\* the token is the directive with each of its 3 digits doubled, or its 6
\* digits, in lowercase
IsNormalOf(token, line) ==
  /\ IsLowerSixDigit(token)
  /\ Len(line) = 4 => \A i \in 2..4 :
                         /\ token[2 * i - 2] = LowerChar(line[i])
                         /\ token[2 * i - 1] = LowerChar(line[i])
  /\ Len(line) = 7 => \A i \in 2..7 : token[i] = LowerChar(line[i])

\* the valid directives read so far, as written
DirectivesRead ==
  LET directives == SelectSeq(lines_read, LAMBDA raw : LineKind(raw) = "color")
  IN [k \in 1..Len(directives) |-> Strip(directives[k])]

\* C18: a step that reads a valid directive either reverts to the default
\* color or makes the normalized token the active color and the marker: the
\* 3 digits doubled, or the 6 digits, in lowercase ("#abc" and "#ABC" give
\* "#aabbcc"); every operation carries '#' and six lowercase hex digits; and
\* when the directives read are a 3-digit or uppercase token and then its
\* normalized form, the second has closed the block the first opened.
C18_TokensNormalizedOnce ==
  /\ [][(ReadsLine /\ LineKind(LineRead) = "color")
        => \/ current_color' = DEFAULT_COLOR /\ last_set_color' = None
           \/ /\ IsNormalOf(current_color', Strip(LineRead))
              /\ last_set_color' = current_color']_vars
  /\ [](/\ NormalizeHex(<<"#","a","b","c">>) = <<"#","a","a","b","b","c","c">>
        /\ NormalizeHex(<<"#","A","B","C">>) = <<"#","a","a","b","b","c","c">>
        /\ \A k \in 1..Len(operations) : IsLowerSixDigit(operations[k].color)
        /\ LET d == DirectivesRead
           IN (Len(d) = 2 /\ d[1] # d[2] /\ IsNormalOf(d[2], d[1]))
              => (current_color = DEFAULT_COLOR /\ last_set_color = None))

\* C18 witness: "#F00", a move, "#ff0000", a move were read: the first
\* operation carries "#ff0000" and the second the default color.
C18_Witness ==
  /\ \E m1 \in MoveLines, m2 \in MoveLines :
        lines_read = <<<<"#","F","0","0">>, m1, RED, m2>>
  /\ Len(operations) = 2
  /\ operations[1].color = RED
  /\ operations[2].color = DEFAULT_COLOR
  /\ last_set_color = None

----------------------------------------------------------------------------
(* Claims about the order of the shortest path *)

\* the segments of each color are next to each other in the path
ColorsContiguous(path) ==
  \A i \in 1..Len(path), j \in 1..Len(path), k \in 1..Len(path) :
     (i < j /\ j < k /\ path[i].color = path[k].color)
     => path[j].color = path[i].color

\* C19 (as claimed), under Spec: when modify_gcode has returned for "Shortest
\* Path" and operations that hold a drawable segment, the path it emitted holds
\* every extracted segment, the segments of each color in one run, and the text
\* holds exactly one color directive for each color of the extracted segments.
C19_OneRunPerColor ==
  (pc = "done" /\ strategy = ShortestPath /\ AnySegments(segments_by_color))
  => /\ Len(optimized_segments) = Len(DictValues(segments_by_color))
     /\ ColorsContiguous(optimized_segments)
     /\ Cardinality({k \in DOMAIN result : IsColorLine(result[k])})
          = Len(segments_by_color.order)

\* the first segment of the list, in input order, among those left that start
\* at the least distance from the point
FirstNearestIn(point, list, left) ==
  LET nearest == {i \in DOMAIN list :
                    /\ list[i] \in left
                    /\ \A t \in left :
                          DistSq(list[i].start, point) <= DistSq(t.start, point)}
  IN list[Min(nearest)]

\* the first color, in the order of the input dict, among those left whose
\* nearest segment is at the least distance from the cursor
FirstNearestColor ==
  LET places == {i \in DOMAIN segments_by_color.order :
                   segments_by_color.order[i] \in DOMAIN remaining_segments.set}
      dist(i) == NearestDistSq(current_point,
                               remaining_segments.set[segments_by_color.order[i]])
      nearest == {i \in places : \A j \in places : dist(i) <= dist(j)}
  IN segments_by_color.order[Min(nearest)]

SpecOspFair == SpecOsp /\ WF_vars(NextOsp)

\* every segment still in some color's set
AllRemaining == UNION {remaining_segments.set[c] : c \in DOMAIN remaining_segments.set}

OspEnded == pc \in {"osp_return", "raised"}

GivenPlaces(raw, axis_lower) ==
  LET found == FindCoords(ArgsOf(Strip(raw)), 1)
  IN {k \in DOMAIN found : LowerChar(found[k].axis) = axis_lower}

Gives(raw, axis_lower) == GivenPlaces(raw, axis_lower) # {}

\* the value a line gives for an axis: the last one on the line
GivenValue(raw, axis_lower) ==
  LET found == FindCoords(ArgsOf(Strip(raw)), 1)
  IN FloatOf(found[Max(GivenPlaces(raw, axis_lower))].value, PlacesOf(axis_lower))

\* the move lines read so far, in the order read
MoveLinesRead == SelectSeq(lines_read, LAMBDA raw : LineKind(raw) = "move")

IsG1(raw) == CommandOf(Strip(raw)) = G1

\* C22, under SpecParse: the operation of a move line takes each of X and Y
\* from the line when given and from the tracked position otherwise, takes Z
\* from the line when given, 0.0 for a G1 and the tracked Z for a G0 otherwise,
\* and the tracked position becomes the operation's (x, y, z); so a G0 without
\* Z right after a G1 without Z has Z = 0.
C22_TargetFromTrackedPosition ==
  /\ [][(ReadsLine /\ LineKind(LineRead) = "move")
          => /\ Len(operations') = Len(operations) + 1
             /\ LET op == operations'[Len(operations')]
                IN /\ op.x = IF Gives(LineRead, "x") THEN GivenValue(LineRead, "x")
                             ELSE current_pos.x
                   /\ op.y = IF Gives(LineRead, "y") THEN GivenValue(LineRead, "y")
                             ELSE current_pos.y
                   /\ op.z = IF Gives(LineRead, "z") THEN GivenValue(LineRead, "z")
                             ELSE IF IsG1(LineRead) THEN 0 ELSE current_pos.z
                   /\ current_pos' = [x |-> op.x, y |-> op.y, z |-> op.z]]_vars
  /\ [](\A i \in 2..Len(MoveLinesRead) :
          (/\ Len(operations) = Len(MoveLinesRead)
           /\ IsG1(MoveLinesRead[i - 1]) /\ ~Gives(MoveLinesRead[i - 1], "z")
           /\ ~IsG1(MoveLinesRead[i]) /\ ~Gives(MoveLinesRead[i], "z"))
             => operations[i].z = 0)

\* a G0 that gives only X, read after a G1 without Z and after a G0 that left
\* the tracked Z at 5: it keeps the tracked Y and carries Z = 0 and Z = 5
C22_Witness ==
  /\ lines_read = << <<"G","1"," ","X","1"," ","Y","0",".","5">>, <<"G","0"," ","X","0">>, <<"G","0"," ","X","0"," ","Y","0"," ","Z","5">>, <<"G","0"," ","X","0">> >>
  /\ operations = << Move(G1, 1000, 500, 0, DEFAULT_COLOR),
                     Move(G0, 0, 500, 0, DEFAULT_COLOR),
                     Move(G0, 0, 0, DEFAULT_Z_UP, DEFAULT_COLOR),
                     Move(G0, 0, 0, DEFAULT_Z_UP, DEFAULT_COLOR) >>

\* ---------------------------------------------------------------------------
\* The list of operations (lines 109-117)

CommandCode(raw) ==
  LET line == Strip(raw)
  IN SubSeq(line, 1, 1 + RunLength(line, 2, DigitChars))

IsMoveCode(code) == Upper(code) \in {G0, G1}

\* C26 (as claimed), under SpecParse: a step that reads a line that is not
\* blank, not a ';' comment, not a '#' line, and whose command code is neither
\* G0 nor G1, leaves the operations, the tracked position, the active color
\* and the marker as they were.
C26_OtherCodesChangeNothing ==
  [][(/\ ReadsLine
      /\ Strip(LineRead) # <<>>
      /\ Strip(LineRead)[1] \notin {";", "#"}
      /\ ~IsMoveCode(CommandCode(LineRead)))
        => UNCHANGED <<operations, current_pos, current_color, last_set_color>>]_vars

\* ---------------------------------------------------------------------------
\* Tool height along the walk of generate_gcode (lines 288-319)

\* the lines a step appends
NewLines == SubSeq(gcode_lines', Len(gcode_lines) + 1, Len(gcode_lines'))

\* a line that sets the tool height: up for a G0 Z line, down for a G1 Z line
IsRaiseLine(l) == StartsWith(l, << "G", "0", " ", "Z" >>)
IsHeightLine(l) == IsRaiseLine(l) \/ StartsWith(l, << "G", "1", " ", "Z" >>)

\* the tool height the text itself implies at line k: that of the last height
\* line above it (the preamble always holds one)
TextToolDown(k) ==
  LET above == {j \in 1..(k - 1) : IsHeightLine(gcode_lines[j])}
  IN above # {} /\ ~IsRaiseLine(gcode_lines[Max(above)])

\* C24, under SpecEmit: a step appends a draw line only while the tracked tool
\* height is down; a travel line or a color directive is appended only while
\* the tracked height is up, or right after a lift appended by the same step,
\* and leaves it up; the tracked height becomes down only in a step that
\* appends the down-transition line and nothing else; and in the text every
\* draw line stands below a down-transition, every travel and color line
\* below a lift.
C24_LinesMatchToolHeight ==
  /\ [][/\ \A k \in DOMAIN NewLines :
             /\ IsDrawLine(NewLines[k])
                  => ToolDown(gen_current_pos.z) /\ ToolDown(gen_current_pos'.z)
             /\ (IsTravelLine(NewLines[k]) \/ IsColorLine(NewLines[k]))
                  => /\ ToolUp(gen_current_pos'.z)
                     /\ \/ ToolUp(gen_current_pos.z)
                        \/ (k > 1 /\ IsLiftLine(NewLines[k - 1]))
        /\ (ToolUp(gen_current_pos.z) /\ ToolDown(gen_current_pos'.z))
             => (pc = "gen_lower" /\ NewLines = <<LowerLine>>)]_vars
  /\ [](\A k \in DOMAIN gcode_lines :
          /\ IsDrawLine(gcode_lines[k]) => TextToolDown(k)
          /\ (IsTravelLine(gcode_lines[k]) \/ IsColorLine(gcode_lines[k]))
               => ~TextToolDown(k))

\* a default-color segment is drawn, then a red one that starts elsewhere: the
\* tool is lifted for the color change, the color and the travel are written
\* with the tool up, and the tool is lowered before the draw
C24_Witness ==
  /\ pc = "gen_return"
  /\ optimized_segments
       = << Segment(Point(0, 0), Point(1000, 0), DEFAULT_COLOR),
            Segment(Point(0, 500), Point(1000, 500), RED) >>
  /\ \E k \in DOMAIN gcode_lines :
       SubSeq(gcode_lines, k, k + 5)
         = << DrawLine(Point(1000, 0)), LiftForColorLine, ColorLine(RED),
              TravelLine(Point(0, 500)), LowerLine, DrawLine(Point(1000, 500)) >>

\* ---------------------------------------------------------------------------
\* The text generate_gcode returns (lines 263-326)

\* C25, under SpecEmit: when generate_gcode returns, the text has exactly one
\* draw line per segment of the path, the i-th of them the draw to the end
\* point of the i-th segment; it begins with the preamble and its last three
\* lines are a tool-up rapid, the rapid to origin and the program-end marker;
\* the empty path included.
C25_OneDrawPerSegment ==
  pc = "gen_return"
    => LET n == Len(gcode_lines)
       IN /\ Len(DrawPlaces) = Len(optimized_segments)
          /\ \A i \in DOMAIN optimized_segments :
               gcode_lines[DrawPlaces[i]] = DrawLine(optimized_segments[i].end)
          /\ n >= Len(PreambleLines) + 3
          /\ SubSeq(gcode_lines, 1, Len(PreambleLines)) = PreambleLines
          /\ IsRaiseLine(gcode_lines[n - 2])
          /\ gcode_lines[n - 1] = ReturnLine
          /\ gcode_lines[n] = EndLine
          /\ optimized_segments = <<>>
               => gcode_lines = PreambleLines \o <<FinalLiftLine, ReturnLine, EndLine>>

\* the call has returned for a path of two red segments drawn in opposite
\* directions: two draw lines, to (0, 0.5) and then to (1, 0), and the trailer
C25_Witness ==
  /\ pc = "gen_return"
  /\ optimized_segments
       = << Segment(Point(0, 0), Point(0, 500), RED),
            Segment(Point(1000, 500), Point(1000, 0), RED) >>
  /\ Len(DrawPlaces) = 2
  /\ gcode_lines[DrawPlaces[1]] = DrawLine(Point(0, 500))
  /\ SubSeq(gcode_lines, Len(gcode_lines) - 3, Len(gcode_lines))
       = << DrawLine(Point(1000, 0)), FinalLiftLine, ReturnLine, EndLine >>

\* ---------------------------------------------------------------------------
\* The nearest-neighbour choices of optimize_shortest_path (lines 89-150)

\* s is in the set and no segment of the set starts nearer to the point
IsNearestOf(s, point, segments_set) ==
  /\ s \in segments_set
  /\ \A t \in segments_set : DistSq(s.start, point) <= DistSq(t.start, point)

\* where the cursor must be between two blocks: the origin before the first
\* segment, the end of the last segment added after it
CursorOfPath ==
  IF optimized_path = <<>> THEN Point(0, 0)
  ELSE optimized_path[Len(optimized_path)].end

C28_StartIsPreviousTarget ==
  Extracted =>
    /\ \A c \in DOMAIN segments_by_color.list :
         \A k \in DOMAIN segments_by_color.list[c] :
            \E i \in DOMAIN parsed_data :
               /\ parsed_data[i].command = G1 /\ parsed_data[i].color = c
               /\ segments_by_color.list[c][k].end = TargetXY(i)
               /\ segments_by_color.list[c][k].start = RunningXY(i)
    /\ \A i \in 2..Len(parsed_data) :
         (/\ parsed_data[i].command = G1
          /\ parsed_data[i].z <= DEFAULT_Z_DOWN + Z_TOLERANCE
          /\ TargetXY(i) # TargetXY(i - 1))
           => \E s \in Range(Bucket(parsed_data[i].color)) :
                 s.start = TargetXY(i - 1) /\ s.end = TargetXY(i)

\* a pen-up G0 away from the origin, which yields no segment, then a pen-down
\* G1: the one segment starts at the target of the G0
C28_Witness ==
  /\ Extracted
  /\ Len(parsed_data) = 2
  /\ parsed_data[1].command = G0 /\ parsed_data[1].z = 100000
  /\ TargetXY(1) = Point(1000, 0)
  /\ parsed_data[2].command = G1 /\ parsed_data[2].z = DEFAULT_Z_DOWN
  /\ DictValues(segments_by_color)
       = <<Segment(Point(1000, 0), Point(1000, 500), DEFAULT_COLOR)>>

\* ---------------------------------------------------------------------------
\* The segments handed to the emitter (lines 192-207, 232-247, 44-51)

\* C30 (as claimed), under Spec: every segment of the path that modify_gcode
\* hands to generate_gcode has start # end, whatever the strategy.
C30_NoZeroLengthSegment ==
  pc = "gen_start" =>
    \A i \in DOMAIN optimized_segments :
       optimized_segments[i].start # optimized_segments[i].end

\* ---------------------------------------------------------------------------
\* Round trip: generate_gcode, then parse_gcode, then extract_segments

\* the segments extracted from the parse of the text written so far
RoundTrip == extract_segments(ParseFile(gcode_lines).operations)

\* the segments of the path that have a color, in path order
PathOfColor(c) == SelectSeq(optimized_segments, LAMBDA s : s.color = c)

\* C29 (as claimed), under SpecEmit: when generate_gcode has returned for a
\* path without zero-length segments, parsing its text and extracting the
\* segments gives, for every color, exactly the path's segments of that color
\* in path order, and no other color; and every color-directive line of the
\* text is read by the parser as a directive for its color.
C29_RoundTrip ==
  (/\ pc = "gen_return"
   /\ \A i \in DOMAIN optimized_segments :
         optimized_segments[i].start # optimized_segments[i].end)
    => /\ \A c \in Colors :
            (IF c \in DOMAIN RoundTrip.list THEN RoundTrip.list[c] ELSE <<>>)
              = PathOfColor(c)
       /\ DOMAIN RoundTrip.list \subseteq Colors
       /\ \A k \in DOMAIN gcode_lines :
            \A c \in Colors :
               gcode_lines[k] = ColorLine(c)
                 => /\ LineKind(gcode_lines[k]) = "color"
                    /\ NormalizeHex(Strip(gcode_lines[k])) = c

\* ---------------------------------------------------------------------------
\* The caller in the application: GCodeVisualizerApp.modify_gcode_path
\* (gcode_visualizer_app.py, lines 531-571).  Its position after the call is
\* the dialog it ends with.

\* str.lower() on one character
UpperLetters == <<"A","B","C","D","E","F","G","H","I","J","K","L","M","N","O","P","Q","R","S","T","U","V","W","X","Y","Z">>
LowerLetters == <<"a","b","c","d","e","f","g","h","i","j","k","l","m","n","o","p","q","r","s","t","u","v","w","x","y","z">>
StrLowerChar(c) ==
  IF \E k \in DOMAIN UpperLetters : UpperLetters[k] = c
  THEN LowerLetters[CHOOSE k \in DOMAIN UpperLetters : UpperLetters[k] = c]
  ELSE c
StrLower(text) == [i \in DOMAIN text |-> StrLowerChar(text[i])]

\* line 561: "placeholder" in result.lower() or "error" in result.lower();
\* neither word holds a line break, so it is in the text when it is in a line
ShowsWarning(text) ==
  \E k \in DOMAIN text :
     \/ Contains(StrLower(text[k]), <<"p","l","a","c","e","h","o","l","d","e","r">>)
     \/ Contains(StrLower(text[k]), <<"e","r","r","o","r">>)

\* lines 533-554: a press of the button.  Without loaded operations the error
\* dialog is shown and modify_gcode is not called; otherwise it is called, with
\* fresh locals, on the loaded operations and the selected strategy, both as
\* they were at the press before.
ModifyPathEntry ==
  /\ pc \in {"path_entry", "showerror", "showwarning", "showinfo"}
  /\ Len(returned) < MaxCalls
  /\ pc' = IF Len(parsed_data) = 0 THEN "showerror" ELSE "entry"
  /\ segments_by_color' = EmptyDict
  /\ optimized_segments' = <<>>
  /\ opt_ret' = "unset"
  /\ exc' = <<>>
  /\ result' = <<>>
  /\ optimized_path' = <<>>
  /\ current_point' = Point(0, 0)
  /\ processed_count' = 0
  /\ gcode_lines' = <<>>
  /\ gen_current_pos' = [x |-> 0, y |-> 0, z |-> DEFAULT_Z_UP]
  /\ gen_current_color' = None
  /\ gen_i' = 1
  /\ UNCHANGED <<parsed_data, strategy, points_hashable, remaining_segments,
                 total_segments, nearest_color, current_segment_in_color,
                 parse_vars, gui_vars>>

\* lines 554-564: the text returned is shown, and the dialog is chosen by the
\* words in it.  modify_gcode returns text on every path, so the handler of
\* lines 567-571 is not entered.
ModifyPathReport ==
  /\ pc = "done"
  /\ returned' = Append(returned, result)
  /\ pc' = IF ShowsWarning(result) THEN "showwarning" ELSE "showinfo"
  /\ UNCHANGED <<parsed_data, strategy, segments_by_color, optimized_segments,
                 opt_ret, exc, result, parse_vars, osp_vars, gen_vars>>

\* the operations a loaded file can hold: rapids and pen-down draws in the
\* default color
LoadedMoves == {Move(c, x, y, DEFAULT_Z_DOWN, DEFAULT_COLOR) :
                  c \in {G0, G1}, x \in XS, y \in YS}

\* the strategy is the value of one of the three radio buttons (lines 82-91)
InitGui ==
  /\ pc = "path_entry"
  /\ returned = <<>>
  /\ parsed_data \in SeqsUpTo(LoadedMoves, MaxOps)
  /\ strategy \in KnownStrategies
  /\ segments_by_color = EmptyDict
  /\ optimized_segments = <<>>
  /\ opt_ret = "unset"
  /\ exc = <<>>
  /\ result = <<>>
  /\ points_hashable = FALSE
  /\ ParseIdle /\ OspIdle /\ GenIdle

NextGui ==
  \/ ModifyPathEntry
  \/ ModifyEntry
  \/ ModifyExtract
  \/ DispatchShortestPath
  \/ DispatchVertical
  \/ DispatchHorizontal
  \/ OspBuild
  \/ ModifyCheckOptimized
  \/ ModifyExcept
  \/ NextEmit
  \/ ModifyReturn
  \/ ModifyPathReport

SpecGui == InitGui /\ [][NextGui]_vars

\* the diagnostics modify_gcode can return (lines 344, 350, 362, 365, 378)
DiagnosticTexts ==
  {<<NoDataText>>, <<NoSegmentsText>>, <<UnknownStrategyText(strategy)>>,
   <<OptimizationFailedText>>, <<ExceptionText(exc)>>}

\* C31 (as claimed), under SpecGui: the "Modification Complete" dialog is
\* shown only when modify_gcode returned the text generate_gcode wrote, a
\* toolpath; after every return of a diagnostic the warning dialog is shown.
C31_SuccessOnlyForToolpath ==
  /\ pc = "showinfo"
       => (result = gcode_lines /\ IsToolpath(result, Len(optimized_segments)))
  /\ (pc \in {"showinfo", "showwarning"} /\ result \in DiagnosticTexts)
       => pc = "showwarning"

\* ---------------------------------------------------------------------------
\* The active color and the marker together (lines 17-61)

\* C32, under SpecParse: after every line the marker is cleared or equal to
\* the active color, and while it is cleared the active color is the default;
\* so a color other than the default is never active with the marker cleared
\* or naming another color.
C32_MarkerFollowsColor ==
  /\ last_set_color \in {None, current_color}
  /\ last_set_color = None => current_color = DEFAULT_COLOR
  /\ current_color # DEFAULT_COLOR => last_set_color = current_color

\* a red block is opened by the short form, closed by the long form, and a
\* green block is opened: the marker names green, the active color
C32_Witness ==
  /\ lines_read = << <<"#","F","0","0">>, <<"#","f","f","0","0","0","0">>, <<"#","0","0","f","f","0","0">> >>
  /\ current_color = GREEN
  /\ last_set_color = GREEN

\* ---------------------------------------------------------------------------
\* The caller's operation list across calls of modify_gcode (lines 331-378)

====
